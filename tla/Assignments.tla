----------------------------- MODULE Assignments -----------------------------
(***************************************************************************)
(* Homework of a class: staff write, publish, close and grade, students    *)
(* submit.  A request loads its rows, decides on the copies and saves the  *)
(* whole entity; no statement locks a row, so another request's save may   *)
(* fall in between.                                                        *)
(***************************************************************************)
EXTENDS Integers, FiniteSets

CONSTANTS
  Pupil,   \* students of the class
  Clerk,   \* requests under way
  Answer,  \* texts of an answer
  MaxScore,
  Score,
  DueDate, \* dates, positive numbers; now is 0 at first, 1 later
  Nothing  \* NULL, or no row

\* A row of assignment_submissions; a submission with a grade is not late any more.
WorkRow ==
  [answer : Answer \union {Nothing}, status : {"submitted", "late", "graded"},
   score : Score \union {Nothing}, file : BOOLEAN]

ASSUME TaskConstants == IsFiniteSet(Pupil) /\ Nothing \notin WorkRow

VARIABLES
  task,     \* row of assignments
  work,     \* row of assignment_submissions by student, with a file or none
  attending, \* students whose class_students row is Active
  now,
  clerk,    \* what each request will save; Nothing when it is free
  overtaken \* a request saved after another one had saved since it loaded

taskVars == <<task, work, attending, now, clerk, overtaken>>

TaskInit ==
  /\ task = [status |-> "none", max |-> 0, due |-> Nothing]
  /\ work = [p \in Pupil |-> Nothing]
  /\ attending = Pupil /\ now = 0
  /\ clerk = [c \in Clerk |-> Nothing] /\ overtaken = FALSE

\* The loads of a request found what it will save: the entity, and the student
\* of a submission.
Loaded(c, op, pupil, entity, file) ==
  /\ clerk[c] = Nothing
  /\ clerk' = [clerk EXCEPT ![c] = [op |-> op, pupil |-> pupil, entity |-> entity,
                                    file |-> file, stale |-> FALSE]]
  /\ UNCHANGED <<task, work, attending, now, overtaken>>

\* After a save the other requests hold older copies.
Overtake(c) ==
  /\ overtaken' = (overtaken \/ clerk[c].stale)
  /\ clerk' = [d \in Clerk |-> IF d = c THEN Nothing
                               ELSE IF clerk[d] = Nothing THEN Nothing
                               ELSE [clerk[d] EXCEPT !.stale = TRUE]]

\* A request that fails, and one whose file is still to be stored
Return(c) ==
  /\ clerk' = [clerk EXCEPT ![c] = Nothing]
  /\ UNCHANGED <<task, work, attending, now, overtaken>>

-----------------------------------------------------------------------------
(* Staff.                                                                   *)

\* validateDueDate
DueAllowed(due, allowPast) == (~allowPast /\ due # Nothing) => due > now

Posted == task.status \in {"draft", "published", "closed"}

\* A draft, or published at once
CreateTask(max, due, status) ==
  /\ task.status = "none" /\ DueAllowed(due, FALSE)
  /\ task' = [status |-> status, max |-> max, due |-> due]
  /\ UNCHANGED <<work, attending, now, clerk, overtaken>>

\* Mutant: a published or closed assignment may become a draft again.
MayBecome_Draft(old, new) == old # "closed" \/ new # "published"

\* A published assignment never is a draft again, a closed one stays closed.
MayBecome(old, new) ==
  /\ new = "draft" => old = "draft"
  /\ old = "closed" => new = "closed"

UpdateTask(c, max, due, status) ==
  /\ Posted
  /\ MayBecome(task.status, status)
  /\ DueAllowed(due, status # "published")
  /\ Loaded(c, "task", Nothing, [status |-> status, max |-> max, due |-> due], FALSE)

\* save writes every column of the entity, or inserts it where the row is gone.
SaveTask(c) ==
  /\ clerk[c] # Nothing /\ clerk[c].op = "task"
  /\ task' = clerk[c].entity
  /\ Overtake(c)
  /\ UNCHANGED <<work, attending, now>>

RemoveTask(c) ==
  /\ task.status = "draft"
  /\ Loaded(c, "remove", Nothing, Nothing, FALSE)

\* Submissions go with their assignment.
DeleteTask(c) ==
  /\ clerk[c] # Nothing /\ clerk[c].op = "remove"
  /\ task' = [task EXCEPT !.status = "gone"]
  /\ work' = [p \in Pupil |-> Nothing]
  /\ Overtake(c)
  /\ UNCHANGED <<attending, now>>

Grade(c, p, score) ==
  /\ work[p] # Nothing /\ score <= task.max
  /\ Loaded(c, "work", p, [answer |-> work[p].answer, status |-> "graded", score |-> score], FALSE)

-----------------------------------------------------------------------------
(* Students.                                                                *)

Submit(c, p, answer, file) ==
  /\ task.status = "published"
  /\ p \in attending
  /\ answer # Nothing \/ file
  /\ Loaded(c, "submit", p,
            [answer |-> answer, score |-> Nothing,
             status |-> IF ~DueAllowed(task.due, FALSE) THEN "late" ELSE "submitted"], file)

\* A text may be taken back; whether anything is left is not checked.
UpdateSubmission(c, p, answer, file) ==
  /\ work[p] # Nothing
  /\ work[p].status # "graded" /\ task.status # "closed"
  /\ Loaded(c, "work", p, [answer |-> answer, status |-> work[p].status,
                           score |-> work[p].score], file)

\* One submission per student and assignment (UQ_assignment_submissions_student)
Insertable(p) == Posted /\ work[p] = Nothing

\* A file is stored by a statement of its own, after the submission.
StoreSubmission(c, p) ==
  /\ work' = [work EXCEPT ![p] =
                [answer |-> clerk[c].entity.answer, status |-> clerk[c].entity.status,
                 score |-> clerk[c].entity.score,
                 file |-> work[p] # Nothing /\ work[p].file]]
  /\ IF clerk[c].file
     THEN /\ overtaken' = (overtaken \/ clerk[c].stale)
          /\ clerk' = [d \in Clerk |->
                         IF d = c THEN [clerk[c] EXCEPT !.op = "attach", !.stale = FALSE]
                         ELSE IF clerk[d] = Nothing THEN Nothing
                         ELSE [clerk[d] EXCEPT !.stale = TRUE]]
     ELSE Overtake(c)
  /\ UNCHANGED <<task, attending, now>>

\* A first submission is inserted; another is updated, or inserted where a
\* deletion took the row, which then fails without the assignment.
SaveSubmission(c) ==
  /\ clerk[c] # Nothing /\ clerk[c].op \in {"submit", "work"}
  /\ LET p == clerk[c].pupil
     IN IF Insertable(p) \/ (clerk[c].op = "work" /\ work[p] # Nothing)
        THEN StoreSubmission(c, p)
        ELSE Return(c)

AttachFile(c) ==
  /\ clerk[c] # Nothing /\ clerk[c].op = "attach"
  /\ LET p == clerk[c].pupil
     IN IF work[p] = Nothing THEN Return(c)
        ELSE /\ work' = [work EXCEPT ![p].file = TRUE]
             /\ Overtake(c)
             /\ UNCHANGED <<task, attending, now>>

\* Looks at the grade, not at whether the assignment is closed.
RemoveFile(c, p) ==
  /\ work[p] # Nothing /\ work[p].file /\ work[p].status # "graded"
  /\ Loaded(c, "unfile", p, Nothing, FALSE)

DeleteFile(c) ==
  /\ clerk[c] # Nothing /\ clerk[c].op = "unfile"
  /\ work' = [p \in Pupil |-> IF p = clerk[c].pupil /\ work[p] # Nothing
                              THEN [work[p] EXCEPT !.file = FALSE] ELSE work[p]]
  /\ Overtake(c)
  /\ UNCHANGED <<task, attending, now>>

-----------------------------------------------------------------------------
\* The roster and the calendar
ChangeRoster(p) ==
  /\ attending' = IF p \in attending THEN attending \ {p} ELSE attending \union {p}
  /\ UNCHANGED <<task, work, now, clerk, overtaken>>

DayPasses ==
  /\ now = 0 /\ now' = 1
  /\ UNCHANGED <<task, work, attending, clerk, overtaken>>

StaffNext(c) ==
  \/ \E max \in MaxScore, due \in DueDate \union {Nothing} :
       \E status \in {"draft", "published", "closed"} : UpdateTask(c, max, due, status)
  \/ SaveTask(c) \/ RemoveTask(c) \/ DeleteTask(c)
  \/ \E p \in Pupil, score \in Score : Grade(c, p, score)

PupilNext(c) ==
  \/ \E p \in Pupil, answer \in Answer \union {Nothing}, file \in BOOLEAN :
       Submit(c, p, answer, file) \/ UpdateSubmission(c, p, answer, file)
  \/ SaveSubmission(c) \/ AttachFile(c) \/ DeleteFile(c)
  \/ \E p \in Pupil : RemoveFile(c, p)

TaskNext ==
  \/ \E max \in MaxScore, due \in DueDate \union {Nothing}, status \in {"draft", "published"} :
       CreateTask(max, due, status)
  \/ \E c \in Clerk : StaffNext(c) \/ PupilNext(c)
  \/ \E p \in Pupil : ChangeRoster(p)
  \/ DayPasses

TaskSpec == TaskInit /\ [][TaskNext]_taskVars

-----------------------------------------------------------------------------
(* What the lists show.                                                     *)

Sent == {p \in Pupil : work[p] # Nothing}

\* listAssignments; teacherSummary adds the counts up.
StaffList ==
  LET graded == {p \in Sent : work[p].status = "graded"}
  IN [students |-> Cardinality(attending \union Sent), submitted |-> Cardinality(Sent),
      graded |-> Cardinality(graded), pending |-> Cardinality(Sent) - Cardinality(graded)]

\* submissions: a row for everyone who ever was in the class
SubmissionList ==
  [p \in Pupil |-> IF work[p] = Nothing THEN [status |-> "not_submitted", score |-> Nothing, file |-> FALSE]
                   ELSE [status |-> work[p].status, score |-> work[p].score, file |-> work[p].file]]

\* studentAssignments: published ones of the student's classes, and those handed in
Sees(p) == (task.status = "published" /\ p \in attending) \/ work[p] # Nothing

ListsShow(p) ==
  /\ Sees(p)
  /\ SubmissionList[p].status = work[p].status
  /\ StaffList.pending =
       Cardinality({q \in Pupil : SubmissionList[q].status \in {"submitted", "late"}})
  /\ StaffList.submitted <= StaffList.students

-----------------------------------------------------------------------------
\* As long as no request was overtaken by another, no submission is lost, a
\* graded one stays graded, and the text of an answer stays as it was once the
\* assignment is closed, through publishing, closing, deleting and rosters; its
\* student keeps seeing it, and the lists of the staff count it.
WorkKept ==
  [][~overtaken' =>
       \A p \in Pupil : work[p] # Nothing =>
         /\ work'[p] # Nothing /\ ListsShow(p)'
         /\ work[p].status = "graded" => work'[p].status = "graded"
         /\ task.status = "closed" => work'[p].answer = work[p].answer]_taskVars
=============================================================================
