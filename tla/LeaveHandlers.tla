---------------------------- MODULE LeaveHandlers ----------------------------
(***************************************************************************)
(* Leave requests: students submit and cancel, staff approve or reject.    *)
(* An approval marks the student absent.                                   *)
(***************************************************************************)
EXTENDS LessonTables

Open(s) == ~session[s].locked /\ session[s].status # "Completed"

\* SubmitLeaveRequestUseCase checks the session and the requests at hand ...
SubmitLeave(h, s, st) ==
  /\ s \in Held /\ st \in Active
  /\ Day[s] >= Today /\ Open(s)
  /\ leave[<<s, st>>] \notin {"pending", "approved"}
  /\ Begin(h, "submit", [pc |-> "saveLeave", on |-> s, todo |-> {st}])
  /\ UNCHANGED tables

\* UQ_leave_requests_active, and the foreign key to the session
LeaveInsertable(l) ==
  session[l[1]] # Absent /\ leave[l] \notin {"pending", "approved"}

\* ... and inserts.
SaveLeave(h) ==
  /\ At(h, "saveLeave")
  /\ Respond(h)
  /\ \E st \in req[h].todo :
       LET l == <<req[h].on, st>>
       IN IF LeaveInsertable(l)
            THEN /\ leave' = [leave EXCEPT ![l] = "pending"]
                 /\ UNCHANGED <<session, roster, att, period, order, charges,
                                payroll>>
            ELSE UNCHANGED tables

\* ReviewLeaveRequestUseCase: session and attendance are checked before the
\* transaction that decides.
ReviewLeave(h, s, st) ==
  /\ leave[<<s, st>>] = "pending"
  /\ \/ /\ Open(s)
        /\ att[<<s, st>>] # Absent => att[<<s, st>>].bill = None
        /\ Begin(h, "approve", [pc |-> "lockLeave", on |-> s, todo |-> {st}])
     \/ Begin(h, "reject", [pc |-> "lockLeave", on |-> s, todo |-> {st}])
  /\ UNCHANGED tables

CancelLeave(h, s, st) ==
  /\ leave[<<s, st>>] = "pending"
  /\ Begin(h, "withdraw", [pc |-> "lockLeave", on |-> s, todo |-> {st}])
  /\ UNCHANGED tables

LeaveHeld(l) ==
  \E g \in Handler : At(g, "saveApproved") /\ l \in {req[g].on} \X req[g].todo

\* Mutant: the locked row is not looked at again.
StillPending_Unchecked(l) == leave[l] # "none"

\* assertPending on the row that FOR UPDATE returns
StillPending(l) == leave[l] = "pending"

\* saveDecision, saveCancellation; an approval goes on to the attendance row.
LockLeave(h) ==
  \E st \in req[h].todo :
    LET l == <<req[h].on, st>>
        decided == IF req[h].op = "reject" THEN "rejected" ELSE "cancelled"
    IN /\ At(h, "lockLeave")
       /\ ~LeaveHeld(l)
       /\ IF ~StillPending(l)
            THEN Refuse(h)
            ELSE IF req[h].op = "approve"
              THEN /\ Step(h, [pc |-> "saveApproved", row |-> att[l]])
                   /\ UNCHANGED tables
              ELSE /\ leave' = [leave EXCEPT ![l] = decided]
                   /\ Respond(h)
                   /\ UNCHANGED <<session, roster, att, period, order,
                                  charges, payroll>>

\* A billed row is left alone, any other becomes an absence.
SaveApproved(h) ==
  \E st \in req[h].todo :
    LET l == <<req[h].on, st>>
        new == [Entity(req[h].row) EXCEPT !.present = FALSE]
    IN /\ At(h, "saveApproved")
       /\ Respond(h)
       /\ IF new.bill = None /\ ~Savable(l, req[h].row, new)
            THEN UNCHANGED tables
            ELSE /\ leave' = [leave EXCEPT ![l] = "approved"]
                 /\ att' = [att EXCEPT ![l] = IF new.bill = None THEN new
                                                                 ELSE @]
                 /\ UNCHANGED <<session, roster, period, order, charges,
                                payroll>>

ReceiveLeaveRequest(h) ==
  \E s \in Session, st \in Student :
    SubmitLeave(h, s, st) \/ ReviewLeave(h, s, st) \/ CancelLeave(h, s, st)

ServeLeaveRequest(h) == SaveLeave(h) \/ LockLeave(h) \/ SaveApproved(h)
=============================================================================
