---------------------------- MODULE LessonBilling ----------------------------
(***************************************************************************)
(* Payment periods over the lessons: CreatePaymentPeriodUseCase reads what *)
(* is not charged yet and marks it by id some statements later, in one     *)
(* READ COMMITTED transaction without locks.  Orders here are unpaid ones  *)
(* of active periods; TuitionPayment has the others.                       *)
(***************************************************************************)
EXTENDS LessonTables

\* Mutant: findTuitionSources without bill_id IS NULL.
Chargeable_Again(l) == att[l] # Absent /\ Taught(l[1])

\* findTuitionSources: unbilled rows of taught lessons, absences included
\* (they are charged with rate 0)
Chargeable(l) == att[l] # Absent /\ att[l].bill = None /\ Taught(l[1])

\* The id of a new period is its creator's own.
FreshPeriod(p) ==
  period[p] = "none" /\ \A g \in Handler : req[g].on # p

FindTuitionSources(h, p, S) ==
  /\ FreshPeriod(p)
  /\ LET L == {l \in Held \X S : Chargeable(l)}
     IN Begin(h, "tuition",
          [pc |-> "saveBills", on |-> p, rows |-> L,
           gone |-> {l \in L : att[l].present}])
  /\ UNCHANGED tables

\* savePeriod, saveOrders, COMMIT: a bill per student, and UPDATE ... SET
\* bill_id WHERE id IN (the rows read), whatever has happened to them.
SaveBills(h) ==
  LET p == req[h].on
      L == req[h].rows
  IN /\ At(h, "saveBills")
     /\ period' = [period EXCEPT ![p] = "open"]
     /\ order' = [order EXCEPT ![p] = {l[2] : l \in L}]
     /\ charges' = [charges EXCEPT ![p] =
          {<<l[1], l[2], l \in req[h].gone>> : l \in L}]
     /\ att' = [l \in Lesson |->
          IF l \in Rows(Held) \cap L THEN [att[l] EXCEPT !.bill = p]
                                     ELSE att[l]]
     /\ Respond(h)
     /\ UNCHANGED <<session, roster, leave, payroll>>

\* Mutant: a session is paid again.
Payable_Again(s) == Taught(s) /\ Rows({s}) # {}

\* findSalarySources: sessions that nobody has been paid for, with at least
\* one attendance row
Payable(s) == Taught(s) /\ ~Waged(s) /\ Rows({s}) # {}

FindSalarySources(h, p) ==
  /\ FreshPeriod(p)
  /\ Begin(h, "salary", [pc |-> "saveWages", on |-> p,
                         rows |-> {s \in Held : Payable(s)} \X Student])
  /\ UNCHANGED tables

SaveWages(h) ==
  LET p == req[h].on
      S == {l[1] : l \in req[h].rows}
  IN /\ At(h, "saveWages")
     /\ period' = [period EXCEPT ![p] = "open"]
     /\ payroll' = [payroll EXCEPT ![p] = S]
     /\ session' = [s \in Session |->
          IF s \in S \cap Held THEN [session[s] EXCEPT !.wage = p]
                               ELSE session[s]]
     /\ Respond(h)
     /\ UNCHANGED <<roster, att, leave, order, charges>>

\* UPDATE student_attendance SET bill_id = NULL of the bills of students S
Release(p, S) ==
  [l \in Lesson |-> IF att[l] # Absent /\ att[l].bill = p /\ l[2] \in S
                      THEN [att[l] EXCEPT !.bill = None] ELSE att[l]]

\* DeleteBillingOrderUseCase; DeletePaymentPeriodUseCase does the same for
\* all bills of the period.
DeleteBills(h, p, S) ==
  /\ "deleteBills" \in Operations
  /\ At(h, "idle")
  /\ period[p] = "open"
  /\ att' = Release(p, S)
  /\ order' = [order EXCEPT ![p] = @ \ S]
  /\ charges' = [charges EXCEPT ![p] = {c \in @ : c[2] \notin S}]
  /\ period' = [period EXCEPT ![p] = IF S = Student THEN "deleted" ELSE @]
  /\ UNCHANGED <<session, roster, leave, payroll, req>>

DeleteWages(h, p) ==
  /\ "deleteWages" \in Operations
  /\ At(h, "idle")
  /\ period[p] = "open"
  /\ session' = [s \in Session |->
       IF s \in Held /\ session[s].wage = p
         THEN [session[s] EXCEPT !.wage = None] ELSE session[s]]
  /\ payroll' = [payroll EXCEPT ![p] = {}]
  /\ period' = [period EXCEPT ![p] = "deleted"]
  /\ UNCHANGED <<roster, att, leave, order, charges, req>>

ReceiveBillingRequest(h) ==
  \/ \E p \in TuitionPeriod, S \in (SUBSET Student) \ {{}} :
       FindTuitionSources(h, p, S) \/ DeleteBills(h, p, S)
  \/ \E p \in SalaryPeriod : FindSalarySources(h, p) \/ DeleteWages(h, p)

ServeBillingRequest(h) == SaveBills(h) \/ SaveWages(h)
=============================================================================
