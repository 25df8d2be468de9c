------------------------------ MODULE MCLessons ------------------------------
(* Model values and instances for TLC.                                     *)
EXTENDS Lessons, TLC

CONSTANTS s1, s2, a, b, t1, t2, w1, w2, h1, h2

OneSession == {s1}
TwoSessions == {s1, s2}
OneStudent == {a}
TwoStudents == {a, b}
SlotOf == [s \in Session |-> s]
FirstToday == [s \in Session |-> IF s = s1 THEN 1 ELSE 2]
TodayOrTomorrow == {1, 2}

SessionOperations == {"start", "clock", "revert", "mark", "override", "grade",
                      "complete", "update", "delete", "regenerate"}
RosterOperations == {"enroll", "remove", "joined", "adhoc"}
BillingOperations == {"tuition", "salary", "deleteBills", "deleteWages"}
LeaveOperations == {"submit", "approve", "reject", "withdraw"}
AllOperations == SessionOperations \union RosterOperations
  \union BillingOperations \union LeaveOperations \union {"crash"}
WithoutCrash == AllOperations \ {"crash", "reject", "withdraw"}

RaceOperations == {"clock", "mark", "complete", "delete", "regenerate", "enroll", "remove", "joined", "tuition", "deleteBills", "submit", "approve", "reject", "withdraw", "crash"}

LeaveAndRoster == {"enroll", "remove", "submit", "approve"}
MarkAndBill == {"enroll", "mark", "complete", "tuition"}

HandlerSymmetry == Permutations(Handler)
=============================================================================
