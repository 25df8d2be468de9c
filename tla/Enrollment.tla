------------------------------ MODULE Enrollment ------------------------------
(***************************************************************************)
(* class_students: enrolments and removals, one transaction each at READ   *)
(* COMMITTED, with the row locks they take.  A lock is held from the       *)
(* statement that takes it to the end of the transaction, so who holds     *)
(* what is a function of where the transactions are.  The table variables  *)
(* hold committed rows; what a transaction writes appears when it commits. *)
(***************************************************************************)
EXTENDS Integers, FiniteSets

CONSTANTS
  ClassRow,   \* classes
  StudentRow, \* students
  MaxSize,    \* capacities; Unlimited is one of them
  Unlimited,
  EnrolHandler \* requests served at the same time

ASSUME EnrolConstants ==
  /\ IsFiniteSet(StudentRow)
  /\ MaxSize \ {Unlimited} \subseteq Nat /\ Unlimited \notin Nat

VARIABLES
  enrolled, \* class_students.status by class and student, "none" without row
  studies,  \* students.status
  capacity, \* classes.max_size
  seat,     \* by handler: request, row and next statement
  overlapped \* history: students of whom a removal and another request overlapped

enrolVars == <<enrolled, studies, capacity, seat, overlapped>>

EnrolIdle == [op |-> "none", class |-> "none", student |-> "none", at |-> "idle"]

EnrolRequest ==
  [op : {"enroll", "remove"}, class : ClassRow, student : StudentRow,
   at : {"class", "student", "row", "count", "insert", "again", "dropped", "waiting"}]

EnrolTypeOK ==
  /\ enrolled \in [ClassRow -> [StudentRow -> {"none", "Active", "Dropped"}]]
  /\ studies \in [StudentRow -> {"Studying", "Waiting for class"}]
  /\ capacity \in [ClassRow -> MaxSize]
  /\ seat \in [EnrolHandler -> EnrolRequest \union {EnrolIdle}]
  /\ overlapped \subseteq StudentRow

EnrolInit ==
  /\ enrolled = [c \in ClassRow |-> [s \in StudentRow |-> "none"]]
  /\ studies = [s \in StudentRow |-> "Waiting for class"]
  /\ capacity \in [ClassRow -> MaxSize]
  /\ seat = [h \in EnrolHandler |-> EnrolIdle]
  /\ overlapped = {}

-----------------------------------------------------------------------------
\* SELECT ... FOR UPDATE: an enrolment locks class, student and enrolment row.
\* A removal locks the row and, if the student has no other class, the student.

\* Mutant: enrolling a student again does not lock the class.
HoldsClassRow_NewOnly(h, c) ==
  /\ seat[h].op = "enroll" /\ seat[h].class = c
  /\ enrolled[c][seat[h].student] = "none"
  /\ seat[h].at \in {"student", "row", "count", "insert", "again"}

HoldsClassRow(h, c) ==
  /\ seat[h].op = "enroll" /\ seat[h].class = c
  /\ seat[h].at \in {"student", "row", "count", "insert", "again"}

HoldsStudentRow(h, s) ==
  /\ seat[h].student = s
  /\ \/ seat[h].op = "enroll" /\ seat[h].at \in {"row", "count", "insert", "again"}
     \/ seat[h].op = "remove" /\ seat[h].at = "waiting"

HoldsEnrolment(h, c, s) ==
  /\ seat[h].class = c /\ seat[h].student = s
  /\ enrolled[c][s] # "none"
  /\ \/ seat[h].op = "enroll" /\ seat[h].at \in {"count", "insert", "again"}
     \/ seat[h].op = "remove" /\ seat[h].at \in {"count", "student", "dropped", "waiting"}

\* The requests that hold the lock h asks for next
HoldersOf(h) ==
  {k \in EnrolHandler \ {h} :
     \/ seat[h].at = "class" /\ HoldsClassRow(k, seat[h].class)
     \/ seat[h].at = "student" /\ HoldsStudentRow(k, seat[h].student)
     \/ seat[h].at = "row" /\ HoldsEnrolment(k, seat[h].class, seat[h].student)}

Free(h) == HoldersOf(h) = {}

EnrolGoto(h, at) == seat' = [seat EXCEPT ![h].at = at]

EnrolDone(h) == seat' = [seat EXCEPT ![h] = EnrolIdle]

-----------------------------------------------------------------------------
\* Requests for the same student that overlap, one of them a removal
Overlaps(op, s) ==
  \E k \in EnrolHandler : seat[k].student = s /\ "remove" \in {op, seat[k].op}

RequestSeat(h, op, c, s) ==
  /\ seat[h] = EnrolIdle
  /\ seat' = [seat EXCEPT ![h] =
                [op |-> op, class |-> c, student |-> s,
                 at |-> IF op = "enroll" THEN "class" ELSE "row"]]
  /\ overlapped' = IF Overlaps(op, s) THEN overlapped \union {s} ELSE overlapped
  /\ UNCHANGED <<enrolled, studies, capacity>>

\* enrollStudent locks class and student.
LockClassRow(h) ==
  /\ seat[h].at = "class" /\ Free(h)
  /\ EnrolGoto(h, "student")
  /\ UNCHANGED <<enrolled, studies, capacity, overlapped>>

LockStudentRow(h) ==
  /\ seat[h].op = "enroll" /\ seat[h].at = "student" /\ Free(h)
  /\ EnrolGoto(h, "row")
  /\ UNCHANGED <<enrolled, studies, capacity, overlapped>>

\* ... then the enrolment row if there is one; an Active one needs no seat.
LockEnrolment(h) ==
  LET c == seat[h].class
      s == seat[h].student
  IN /\ seat[h].op = "enroll" /\ seat[h].at = "row" /\ Free(h)
     /\ EnrolGoto(h, IF enrolled[c][s] = "Active" THEN "again" ELSE "count")
     /\ UNCHANGED <<enrolled, studies, capacity, overlapped>>

ActiveIn(c) == {s \in StudentRow : enrolled[c][s] = "Active"}

\* The count of Active enrolments, of committed rows
CountSeats(h) ==
  LET c == seat[h].class
  IN /\ seat[h].op = "enroll" /\ seat[h].at = "count"
     /\ IF capacity[c] # Unlimited /\ Cardinality(ActiveIn(c)) >= capacity[c]
        THEN EnrolDone(h)
        ELSE EnrolGoto(h, "insert")
     /\ UNCHANGED <<enrolled, studies, capacity, overlapped>>

TakeSeat(h) ==
  LET c == seat[h].class
      s == seat[h].student
  IN /\ seat[h].at \in {"insert", "again"}
     /\ enrolled' = IF seat[h].at = "insert"
                    THEN [enrolled EXCEPT ![c] = [@ EXCEPT ![s] = "Active"]] ELSE enrolled
     /\ studies' = [studies EXCEPT ![s] = "Studying"]
     /\ EnrolDone(h)
     /\ UNCHANGED <<capacity, overlapped>>

\* removeStudent locks the enrolment row.
LockDropped(h) ==
  LET c == seat[h].class
      s == seat[h].student
  IN /\ seat[h].op = "remove" /\ seat[h].at = "row" /\ Free(h)
     /\ IF enrolled[c][s] = "none" THEN EnrolDone(h) ELSE EnrolGoto(h, "count")
     /\ UNCHANGED <<enrolled, studies, capacity, overlapped>>

\* Mutant: the class the student leaves is counted.
OtherClass_Counted(h) == \E d \in ClassRow : enrolled[d][seat[h].student] = "Active"

\* Does the student have another Active class?  Committed rows, and its own row
\* that it has written as Dropped.
OtherClass(h) ==
  \E d \in ClassRow \ {seat[h].class} : enrolled[d][seat[h].student] = "Active"

CountClasses(h) ==
  /\ seat[h].op = "remove" /\ seat[h].at = "count"
  /\ EnrolGoto(h, IF OtherClass(h) THEN "dropped" ELSE "student")
  /\ UNCHANGED <<enrolled, studies, capacity, overlapped>>

LockWaiting(h) ==
  /\ seat[h].op = "remove" /\ seat[h].at = "student" /\ Free(h)
  /\ EnrolGoto(h, "waiting")
  /\ UNCHANGED <<enrolled, studies, capacity, overlapped>>

LeaveSeat(h) ==
  LET c == seat[h].class
      s == seat[h].student
  IN /\ seat[h].at \in {"dropped", "waiting"}
     /\ enrolled' = [enrolled EXCEPT ![c] = [@ EXCEPT ![s] = "Dropped"]]
     /\ studies' = IF seat[h].at = "waiting"
                   THEN [studies EXCEPT ![s] = "Waiting for class"] ELSE studies
     /\ EnrolDone(h)
     /\ UNCHANGED <<capacity, overlapped>>

\* ClassController.update: the UPDATE of the class row waits for its lock.
SetMaxSize(c, n) ==
  /\ \A h \in EnrolHandler : ~HoldsClassRow(h, c)
  /\ capacity' = [capacity EXCEPT ![c] = n]
  /\ UNCHANGED <<enrolled, studies, seat, overlapped>>

\* A cycle of requests that wait for each other
Cycle(S) == S # {} /\ \A h \in S : HoldersOf(h) \intersect S # {}

\* PostgreSQL cancels one of them; runSerializable retries 40001, not 40P01.
EnrolVictim(h) ==
  /\ \E S \in SUBSET EnrolHandler : h \in S /\ Cycle(S)
  /\ EnrolDone(h)
  /\ UNCHANGED <<enrolled, studies, capacity, overlapped>>

EnrolNext ==
  \/ \E h \in EnrolHandler :
       \/ \E op \in {"enroll", "remove"}, c \in ClassRow, s \in StudentRow :
            RequestSeat(h, op, c, s)
       \/ LockClassRow(h) \/ LockStudentRow(h) \/ LockEnrolment(h)
       \/ CountSeats(h) \/ TakeSeat(h)
       \/ LockDropped(h) \/ CountClasses(h) \/ LockWaiting(h) \/ LeaveSeat(h)
       \/ EnrolVictim(h)
  \/ \E c \in ClassRow, n \in MaxSize : SetMaxSize(c, n)

EnrolSpec == EnrolInit /\ [][EnrolNext]_enrolVars

-----------------------------------------------------------------------------
\* However enrolments and removals interleave, no enrolment takes a class beyond
\* its size: what an enrolment counted stays true until it commits.
EnrolWithinCapacity ==
  [][\A c \in ClassRow :
       \/ capacity[c] = Unlimited
       \/ ActiveIn(c)' \subseteq ActiveIn(c)
       \/ Cardinality(ActiveIn(c)') <= capacity[c]]_enrolVars

\* The student's status follows the roster: studying with an Active class,
\* waiting without.  Where a removal overlapped another request of the student it
\* need not: two removals each count the other's class, and a removal that found
\* no class may be overtaken by an enrolment.
StatusFollowsRoster ==
  \A s \in StudentRow \ overlapped :
    (\A h \in EnrolHandler : seat[h].student # s) =>
      (studies[s] = "Studying" <=> \E c \in ClassRow : enrolled[c][s] = "Active")
=============================================================================
