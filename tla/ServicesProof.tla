---------------------------- MODULE ServicesProof ----------------------------
(***************************************************************************)
(* Places in classes, login accounts, price records, billing orders and the*)
(* clock: who is in a class and waits for one, what is kept of the account *)
(* of a child and of the prices that have been billed, how an order adds up,*)
(* and which scans make a student present.                                 *)
(***************************************************************************)
EXTENDS Enrollment, Accounts, PriceTimeline, BillCalculation, Timekeeping, SumsProof,
        SequenceTheorems, TLAPS

-----------------------------------------------------------------------------
(* Places in classes                                                       *)

\* What a request is doing fits the statement it is at.
EnrolShape ==
  \A h \in EnrolHandler :
    /\ seat[h].at \in {"class", "insert", "again"} => seat[h].op = "enroll"
    /\ seat[h].at \in {"dropped", "waiting"} => seat[h].op = "remove"

EnrolTypeInv == EnrolTypeOK /\ EnrolShape

Statement == {"class", "student", "row", "count", "insert", "again", "dropped", "waiting"}

\* A handler at a statement serves a request.
LEMMA AtStatement ==
  ASSUME EnrolTypeOK, NEW h \in EnrolHandler, seat[h].at # "idle"
  PROVE  seat[h] \in EnrolRequest
<1>1. seat[h] \in EnrolRequest \union {EnrolIdle}
  BY DEF EnrolTypeOK
<1>2. EnrolIdle.at = "idle"
  BY DEF EnrolIdle
<1> QED
  BY <1>1, <1>2

\* A handler that moves on to another statement still serves its request.
LEMMA GotoTyped ==
  ASSUME EnrolTypeOK, NEW h \in EnrolHandler, seat[h].at # "idle",
         NEW at \in Statement, EnrolGoto(h, at)
  PROVE  /\ seat' \in [EnrolHandler -> EnrolRequest \union {EnrolIdle}]
         /\ seat'[h].at = at /\ seat'[h].op = seat[h].op
         /\ seat'[h].class = seat[h].class /\ seat'[h].student = seat[h].student
         /\ \A k \in EnrolHandler \ {h} : seat'[k] = seat[k]
<1>1. seat[h] \in EnrolRequest
  BY AtStatement
<1>2. [seat[h] EXCEPT !.at = at] \in EnrolRequest
  BY <1>1 DEF EnrolRequest, Statement
<1> QED
  BY <1>1, <1>2 DEF EnrolTypeOK, EnrolGoto, EnrolRequest

LEMMA DoneTyped ==
  ASSUME EnrolTypeOK, NEW h \in EnrolHandler, EnrolDone(h)
  PROVE  /\ seat' \in [EnrolHandler -> EnrolRequest \union {EnrolIdle}]
         /\ seat'[h].at = "idle" /\ seat'[h].op = "none" /\ seat'[h].student = "none"
         /\ \A k \in EnrolHandler \ {h} : seat'[k] = seat[k]
<1>1. seat' \in [EnrolHandler -> EnrolRequest \union {EnrolIdle}] /\ seat'[h] = EnrolIdle
  BY DEF EnrolTypeOK, EnrolDone
<1>2. \A k \in EnrolHandler \ {h} : seat'[k] = seat[k]
  BY DEF EnrolTypeOK, EnrolDone
<1> QED
  BY <1>1, <1>2 DEF EnrolIdle

\* Moving on keeps the invariant where the statement is one of the request's.
LEMMA GotoKeeps ==
  ASSUME EnrolTypeInv, NEW h \in EnrolHandler, seat[h].at # "idle",
         NEW at \in Statement, EnrolGoto(h, at),
         at \in {"class", "insert", "again"} => seat[h].op = "enroll",
         at \in {"dropped", "waiting"} => seat[h].op = "remove",
         UNCHANGED <<enrolled, studies, capacity, overlapped>>
  PROVE  EnrolTypeInv'
<1>1. EnrolTypeOK'
  BY GotoTyped DEF EnrolTypeInv, EnrolTypeOK
<1>2. EnrolShape'
  BY GotoTyped DEF EnrolTypeInv, EnrolShape
<1> QED
  BY <1>1, <1>2 DEF EnrolTypeInv

\* So does committing or rolling back, where the rows keep their types.
LEMMA DoneKeeps ==
  ASSUME EnrolTypeInv, NEW h \in EnrolHandler, EnrolDone(h),
         enrolled' \in [ClassRow -> [StudentRow -> {"none", "Active", "Dropped"}]],
         studies' \in [StudentRow -> {"Studying", "Waiting for class"}],
         UNCHANGED <<capacity, overlapped>>
  PROVE  EnrolTypeInv'
<1>1. EnrolTypeOK'
  BY DoneTyped DEF EnrolTypeInv, EnrolTypeOK
<1>2. EnrolShape'
  BY DoneTyped DEF EnrolTypeInv, EnrolShape
<1> QED
  BY <1>1, <1>2 DEF EnrolTypeInv

LEMMA EnrolInitTyped == EnrolInit => EnrolTypeInv
<1> SUFFICES ASSUME EnrolInit PROVE EnrolTypeInv
  OBVIOUS
<1>1. seat \in [EnrolHandler -> EnrolRequest \union {EnrolIdle}]
  BY DEF EnrolInit
<1>2. EnrolTypeOK
  BY <1>1 DEF EnrolInit, EnrolTypeOK
<1>3. EnrolShape
  BY DEF EnrolInit, EnrolShape, EnrolIdle
<1> QED
  BY <1>2, <1>3 DEF EnrolTypeInv

LEMMA EnrolStepTyped == EnrolTypeInv /\ [EnrolNext]_enrolVars => EnrolTypeInv'
<1> SUFFICES ASSUME EnrolTypeInv, [EnrolNext]_enrolVars PROVE EnrolTypeInv'
  OBVIOUS
<1>0. EnrolTypeOK
  BY DEF EnrolTypeInv
<1>1. CASE UNCHANGED enrolVars
  BY <1>1 DEF enrolVars, EnrolTypeInv, EnrolTypeOK, EnrolShape
<1>2. ASSUME NEW h \in EnrolHandler, NEW op \in {"enroll", "remove"},
             NEW c \in ClassRow, NEW s \in StudentRow, RequestSeat(h, op, c, s)
      PROVE  EnrolTypeInv'
  <2> DEFINE r == [op |-> op, class |-> c, student |-> s,
                   at |-> IF op = "enroll" THEN "class" ELSE "row"]
  <2>1. r \in EnrolRequest
    BY DEF EnrolRequest
  <2>2. seat' = [seat EXCEPT ![h] = r]
    BY <1>2 DEF RequestSeat
  <2>3. EnrolTypeOK'
    BY <1>0, <1>2, <2>1, <2>2 DEF RequestSeat, EnrolTypeOK
  <2>4. /\ r.at \in {"class", "insert", "again"} => r.op = "enroll"
        /\ r.at \notin {"dropped", "waiting"}
    OBVIOUS
  <2>5. EnrolShape'
    BY <1>0, <2>2, <2>4 DEF EnrolTypeInv, EnrolTypeOK, EnrolShape
  <2> QED
    BY <2>3, <2>5 DEF EnrolTypeInv
<1>3. ASSUME NEW h \in EnrolHandler, LockClassRow(h)
      PROVE  EnrolTypeInv'
  BY <1>3, GotoKeeps DEF LockClassRow, Statement
<1>4. ASSUME NEW h \in EnrolHandler, LockStudentRow(h)
      PROVE  EnrolTypeInv'
  BY <1>4, GotoKeeps DEF LockStudentRow, Statement
<1>5. ASSUME NEW h \in EnrolHandler, LockEnrolment(h)
      PROVE  EnrolTypeInv'
  <2>1. CASE EnrolGoto(h, "again")
    BY <1>5, <2>1, GotoKeeps DEF LockEnrolment, Statement
  <2>2. CASE EnrolGoto(h, "count")
    BY <1>5, <2>2, GotoKeeps DEF LockEnrolment, Statement
  <2> QED
    BY <1>5, <2>1, <2>2 DEF LockEnrolment
<1>6. ASSUME NEW h \in EnrolHandler, CountSeats(h)
      PROVE  EnrolTypeInv'
  <2>1. CASE EnrolDone(h)
    BY <1>0, <1>6, <2>1, DoneKeeps DEF CountSeats, EnrolTypeOK
  <2>2. CASE EnrolGoto(h, "insert")
    BY <1>6, <2>2, GotoKeeps DEF CountSeats, Statement
  <2> QED
    BY <1>6, <2>1, <2>2 DEF CountSeats
<1>7. ASSUME NEW h \in EnrolHandler, TakeSeat(h)
      PROVE  EnrolTypeInv'
  <2>1. seat[h].class \in ClassRow /\ seat[h].student \in StudentRow
    BY <1>0, <1>7, AtStatement DEF TakeSeat, EnrolRequest
  <2>2. enrolled' \in [ClassRow -> [StudentRow -> {"none", "Active", "Dropped"}]]
    BY <1>0, <1>7, <2>1 DEF TakeSeat, EnrolTypeOK
  <2>3. studies' \in [StudentRow -> {"Studying", "Waiting for class"}]
    BY <1>0, <1>7, <2>1 DEF TakeSeat, EnrolTypeOK
  <2> QED
    BY <1>7, <2>2, <2>3, DoneKeeps DEF TakeSeat
<1>8. ASSUME NEW h \in EnrolHandler, LockDropped(h)
      PROVE  EnrolTypeInv'
  <2>1. CASE EnrolDone(h)
    BY <1>0, <1>8, <2>1, DoneKeeps DEF LockDropped, EnrolTypeOK
  <2>2. CASE EnrolGoto(h, "count")
    BY <1>8, <2>2, GotoKeeps DEF LockDropped, Statement
  <2> QED
    BY <1>8, <2>1, <2>2 DEF LockDropped
<1>9. ASSUME NEW h \in EnrolHandler, CountClasses(h)
      PROVE  EnrolTypeInv'
  <2>1. CASE EnrolGoto(h, "dropped")
    BY <1>9, <2>1, GotoKeeps DEF CountClasses, Statement
  <2>2. CASE EnrolGoto(h, "student")
    BY <1>9, <2>2, GotoKeeps DEF CountClasses, Statement
  <2> QED
    BY <1>9, <2>1, <2>2 DEF CountClasses
<1>10. ASSUME NEW h \in EnrolHandler, LockWaiting(h)
       PROVE  EnrolTypeInv'
  BY <1>10, GotoKeeps DEF LockWaiting, Statement
<1>11. ASSUME NEW h \in EnrolHandler, LeaveSeat(h)
       PROVE  EnrolTypeInv'
  <2>1. seat[h].class \in ClassRow /\ seat[h].student \in StudentRow
    BY <1>0, <1>11, AtStatement DEF LeaveSeat, EnrolRequest
  <2>2. enrolled' \in [ClassRow -> [StudentRow -> {"none", "Active", "Dropped"}]]
    BY <1>0, <1>11, <2>1 DEF LeaveSeat, EnrolTypeOK
  <2>3. studies' \in [StudentRow -> {"Studying", "Waiting for class"}]
    BY <1>0, <1>11, <2>1 DEF LeaveSeat, EnrolTypeOK
  <2> QED
    BY <1>11, <2>2, <2>3, DoneKeeps DEF LeaveSeat
<1>12. ASSUME NEW h \in EnrolHandler, EnrolVictim(h)
       PROVE  EnrolTypeInv'
  BY <1>0, <1>12, DoneKeeps DEF EnrolVictim, EnrolTypeOK
<1>13. ASSUME NEW c \in ClassRow, NEW n \in MaxSize, SetMaxSize(c, n)
       PROVE  EnrolTypeInv'
  BY <1>13 DEF SetMaxSize, EnrolTypeInv, EnrolTypeOK, EnrolShape
<1> QED
  BY <1>1, <1>2, <1>3, <1>4, <1>5, <1>6, <1>7, <1>8, <1>9, <1>10, <1>11, <1>12, <1>13
     DEF EnrolNext

\* Rows have the statuses they may have, and what a request does fits the statement
\* it is at: the type invariant of enrolStudent and removeStudent.
THEOREM EnrolTyped == EnrolSpec => []EnrolTypeOK
<1>1. EnrolTypeInv => EnrolTypeOK
  BY DEF EnrolTypeInv
<1> QED
  BY <1>1, EnrolInitTyped, EnrolStepTyped, PTL DEF EnrolSpec

-----------------------------------------------------------------------------
\* One enrolment at a time holds the row of a class.
ClassRowExclusive ==
  \A h, k \in EnrolHandler : \A c \in ClassRow :
    HoldsClassRow(h, c) /\ HoldsClassRow(k, c) => h = k

\* What an enrolment found when it counted is still so.
SeatFree ==
  \A h \in EnrolHandler : seat[h].at = "insert" =>
    \/ capacity[seat[h].class] = Unlimited
    \/ Cardinality(ActiveIn(seat[h].class)) < capacity[seat[h].class]

CapacityInv == EnrolTypeInv /\ ClassRowExclusive /\ SeatFree

\* Only an enrolment that waits for the class row can come to hold one.
LEMMA GotoHolds ==
  ASSUME EnrolTypeInv, NEW h \in EnrolHandler, NEW at \in Statement, EnrolGoto(h, at),
         seat[h].at # "idle", ClassRowExclusive,
         seat[h].at = "class" => Free(h),
         seat[h].op = "enroll" => seat[h].at \in {"class", "student", "row", "count"}
  PROVE  ClassRowExclusive'
<1> SUFFICES ASSUME NEW i \in EnrolHandler, NEW k \in EnrolHandler, NEW c \in ClassRow,
                    HoldsClassRow(i, c)', HoldsClassRow(k, c)'
             PROVE  i = k
  BY DEF ClassRowExclusive
<1>1. ASSUME NEW j \in EnrolHandler \ {h}, HoldsClassRow(j, c)'
      PROVE  HoldsClassRow(j, c)
  BY <1>1, GotoTyped DEF EnrolTypeInv, HoldsClassRow
<1>2. ASSUME HoldsClassRow(h, c)'
      PROVE  seat[h].op = "enroll" /\ seat[h].class = c
  BY <1>2, GotoTyped DEF EnrolTypeInv, HoldsClassRow
<1>3. ASSUME HoldsClassRow(h, c)', NEW j \in EnrolHandler \ {h}, HoldsClassRow(j, c)
      PROVE  FALSE
  <2>1. CASE seat[h].at = "class"
    BY <1>2, <1>3, <2>1 DEF Free, HoldersOf
  <2>2. CASE seat[h].at # "class"
    <3>1. HoldsClassRow(h, c)
      BY <1>2, <1>3, <2>2 DEF HoldsClassRow
    <3> QED
      BY <1>3, <3>1 DEF ClassRowExclusive
  <2> QED
    BY <2>1, <2>2
<1> QED
  BY <1>1, <1>3 DEF ClassRowExclusive

LEMMA DoneHolds ==
  ASSUME EnrolTypeInv, NEW h \in EnrolHandler, EnrolDone(h), ClassRowExclusive
  PROVE  ClassRowExclusive'
<1>1. ASSUME NEW c \in ClassRow PROVE ~HoldsClassRow(h, c)'
  BY DoneTyped DEF EnrolTypeInv, HoldsClassRow
<1>2. ASSUME NEW j \in EnrolHandler \ {h}, NEW c \in ClassRow, HoldsClassRow(j, c)'
      PROVE  HoldsClassRow(j, c)
  BY <1>2, DoneTyped DEF EnrolTypeInv, HoldsClassRow
<1> QED
  BY <1>1, <1>2 DEF ClassRowExclusive

\* A step that moves one handler on, and changes no row, keeps free what was free.
LEMMA GotoFree ==
  ASSUME EnrolTypeInv, NEW h \in EnrolHandler, NEW at \in Statement, EnrolGoto(h, at),
         seat[h].at # "idle", UNCHANGED <<enrolled, capacity>>, SeatFree,
         at = "insert" =>
           \/ capacity[seat[h].class] = Unlimited
           \/ Cardinality(ActiveIn(seat[h].class)) < capacity[seat[h].class]
  PROVE  SeatFree'
<1>1. \A c : ActiveIn(c)' = ActiveIn(c)
  BY DEF ActiveIn
<1> QED
  BY <1>1, GotoTyped DEF EnrolTypeInv, SeatFree

LEMMA ActiveFinite ==
  ASSUME NEW c PROVE IsFiniteSet(ActiveIn(c)) /\ Cardinality(ActiveIn(c)) \in Nat
<1>1. ActiveIn(c) \in SUBSET StudentRow
  BY DEF ActiveIn
<1> QED
  BY <1>1, FS_Subset, FS_CardinalityType, EnrolConstants

\* TakeSeat adds a student to one class, LeaveSeat takes one away.
LEMMA TakenSeat ==
  ASSUME EnrolTypeInv, NEW h \in EnrolHandler, TakeSeat(h), NEW c \in ClassRow
  PROVE  IF seat[h].at = "insert" /\ seat[h].class = c
         THEN ActiveIn(c)' \subseteq ActiveIn(c) \union {seat[h].student}
         ELSE ActiveIn(c)' = ActiveIn(c)
<1>1. CASE seat[h].at = "insert"
  <2>1. enrolled' = [enrolled EXCEPT ![seat[h].class] =
                       [@ EXCEPT ![seat[h].student] = "Active"]]
    BY <1>1 DEF TakeSeat
  <2> QED
    BY <1>1, <2>1 DEF EnrolTypeInv, EnrolTypeOK, ActiveIn
<1>2. CASE seat[h].at # "insert"
  <2>1. enrolled' = enrolled
    BY <1>2 DEF TakeSeat
  <2> QED
    BY <1>2, <2>1 DEF ActiveIn
<1> QED
  BY <1>1, <1>2

LEMMA LeftSeat ==
  ASSUME EnrolTypeInv, NEW h \in EnrolHandler, LeaveSeat(h), NEW c \in ClassRow
  PROVE  ActiveIn(c)' \subseteq ActiveIn(c)
  BY DEF LeaveSeat, EnrolTypeInv, EnrolTypeOK, ActiveIn

LEMMA StillFree ==
  ASSUME NEW c \in ClassRow, NEW S, S \subseteq ActiveIn(c), EnrolTypeOK,
         capacity[c] = Unlimited \/ Cardinality(ActiveIn(c)) < capacity[c]
  PROVE  capacity[c] = Unlimited \/ Cardinality(S) < capacity[c]
<1>1. Cardinality(S) \in Nat /\ Cardinality(S) <= Cardinality(ActiveIn(c))
  BY ActiveFinite, FS_Subset, FS_CardinalityType
<1>2. capacity[c] = Unlimited \/ capacity[c] \in Nat
  BY EnrolConstants DEF EnrolTypeOK
<1> QED
  BY <1>1, <1>2, ActiveFinite

\* The other handlers' seats stay free where no class gains a student, or only
\* one whose row they do not hold.
LEMMA DoneFree ==
  ASSUME EnrolTypeInv, SeatFree, NEW h \in EnrolHandler, EnrolDone(h),
         UNCHANGED capacity,
         \A k \in EnrolHandler \ {h}, c \in ClassRow :
           seat[k].at = "insert" /\ seat[k].class = c => ActiveIn(c)' \subseteq ActiveIn(c)
  PROVE  SeatFree'
<1>1. ASSUME NEW k \in EnrolHandler, seat'[k].at = "insert"
      PROVE  \E c \in ClassRow : /\ seat'[k].class = c
                                 /\ \/ capacity'[c] = Unlimited
                                    \/ Cardinality(ActiveIn(c)') < capacity'[c]
  <2>1. k # h /\ seat'[k] = seat[k]
    BY <1>1, DoneTyped DEF EnrolTypeInv
  <2>2. seat[k].class \in ClassRow
    BY <1>1, <2>1, AtStatement DEF EnrolTypeInv, EnrolRequest
  <2>3. PICK c \in ClassRow : seat[k].class = c
    BY <2>2
  <2>4. capacity[c] = Unlimited \/ Cardinality(ActiveIn(c)) < capacity[c]
    BY <1>1, <2>1, <2>3 DEF SeatFree
  <2>5. ActiveIn(c)' \subseteq ActiveIn(c)
    BY <1>1, <2>1, <2>3
  <2>6. capacity[c] = Unlimited \/ Cardinality(ActiveIn(c)') < capacity[c]
    BY <2>4, <2>5, StillFree DEF EnrolTypeInv
  <2> QED
    BY <2>1, <2>3, <2>6
<1> QED
  BY <1>1 DEF SeatFree, ActiveIn

LEMMA EnrolStepExclusive == CapacityInv /\ [EnrolNext]_enrolVars => ClassRowExclusive'
<1> SUFFICES ASSUME CapacityInv, [EnrolNext]_enrolVars PROVE ClassRowExclusive'
  OBVIOUS
<1>0. EnrolTypeInv /\ EnrolTypeOK /\ ClassRowExclusive
  BY DEF CapacityInv, EnrolTypeInv
<1>1. CASE UNCHANGED enrolVars
  BY <1>0, <1>1 DEF enrolVars, ClassRowExclusive, HoldsClassRow
<1>2. ASSUME NEW h \in EnrolHandler, NEW op \in {"enroll", "remove"},
             NEW c \in ClassRow, NEW s \in StudentRow, RequestSeat(h, op, c, s)
      PROVE  ClassRowExclusive'
  <2>1. seat'[h].at \in {"class", "row"} /\ (op = "enroll" <=> seat'[h].at = "class")
        /\ seat'[h].op = op
    BY <1>0, <1>2 DEF RequestSeat, EnrolTypeOK
  <2>2. \A k \in EnrolHandler \ {h} : seat'[k] = seat[k]
    BY <1>0, <1>2 DEF RequestSeat, EnrolTypeOK
  <2>3. \A d \in ClassRow : ~HoldsClassRow(h, d)'
    BY <2>1 DEF HoldsClassRow
  <2>4. \A k \in EnrolHandler \ {h} : \A d \in ClassRow : HoldsClassRow(k, d)' => HoldsClassRow(k, d)
    BY <2>2 DEF HoldsClassRow
  <2> QED
    BY <1>0, <2>3, <2>4 DEF ClassRowExclusive
<1>3. ASSUME NEW h \in EnrolHandler,
             \/ LockClassRow(h) \/ LockStudentRow(h) \/ LockEnrolment(h)
             \/ CountSeats(h) /\ EnrolGoto(h, "insert")
             \/ LockDropped(h) /\ EnrolGoto(h, "count")
             \/ CountClasses(h) \/ LockWaiting(h)
      PROVE  ClassRowExclusive'
  <2>1. PICK at \in Statement : EnrolGoto(h, at)
    BY <1>3 DEF LockClassRow, LockStudentRow, LockEnrolment, CountClasses, LockWaiting, Statement
  <2>2. seat[h].at # "idle" /\ (seat[h].at = "class" => Free(h))
    BY <1>3 DEF LockClassRow, LockStudentRow, LockEnrolment, CountSeats, LockDropped,
                CountClasses, LockWaiting
  <2>3. seat[h].op = "enroll" => seat[h].at \in {"class", "student", "row", "count"}
    BY <1>3 DEF LockClassRow, LockStudentRow, LockEnrolment, CountSeats, LockDropped,
                CountClasses, LockWaiting
  <2> QED
    BY <1>0, <2>1, <2>2, <2>3, GotoHolds
<1>4. ASSUME NEW h \in EnrolHandler, EnrolDone(h)
      PROVE  ClassRowExclusive'
  BY <1>0, <1>4, DoneHolds
<1>5. ASSUME NEW h \in EnrolHandler,
             \/ CountSeats(h) \/ LockDropped(h) \/ TakeSeat(h) \/ LeaveSeat(h) \/ EnrolVictim(h)
      PROVE  ClassRowExclusive'
  BY <1>3, <1>4, <1>5 DEF CountSeats, LockDropped, TakeSeat, LeaveSeat, EnrolVictim
<1>6. ASSUME NEW c \in ClassRow, NEW n \in MaxSize, SetMaxSize(c, n)
      PROVE  ClassRowExclusive'
  BY <1>0, <1>6 DEF SetMaxSize, ClassRowExclusive, HoldsClassRow
<1> QED
  BY <1>1, <1>2, <1>3, <1>5, <1>6 DEF EnrolNext

LEMMA EnrolStepFree == CapacityInv /\ [EnrolNext]_enrolVars => SeatFree'
<1> SUFFICES ASSUME CapacityInv, [EnrolNext]_enrolVars PROVE SeatFree'
  OBVIOUS
<1>0. EnrolTypeInv /\ EnrolTypeOK /\ ClassRowExclusive /\ SeatFree
  BY DEF CapacityInv, EnrolTypeInv
<1>1. CASE UNCHANGED enrolVars
  BY <1>0, <1>1 DEF enrolVars, SeatFree, ActiveIn
<1>2. ASSUME NEW h \in EnrolHandler, NEW op \in {"enroll", "remove"},
             NEW c \in ClassRow, NEW s \in StudentRow, RequestSeat(h, op, c, s)
      PROVE  SeatFree'
  <2>1. seat'[h].at \in {"class", "row"}
    BY <1>0, <1>2 DEF RequestSeat, EnrolTypeOK
  <2>2. \A k \in EnrolHandler \ {h} : seat'[k] = seat[k]
    BY <1>0, <1>2 DEF RequestSeat, EnrolTypeOK
  <2>3. UNCHANGED <<enrolled, capacity>>
    BY <1>2 DEF RequestSeat
  <2> QED
    BY <1>0, <2>1, <2>2, <2>3 DEF SeatFree, ActiveIn
<1>3. ASSUME NEW h \in EnrolHandler, NEW at \in Statement \ {"insert"}, EnrolGoto(h, at),
             seat[h].at # "idle", UNCHANGED <<enrolled, capacity>>
      PROVE  SeatFree'
  BY <1>0, <1>3, GotoFree
<1>4. ASSUME NEW h \in EnrolHandler, EnrolDone(h), UNCHANGED <<enrolled, capacity>>
      PROVE  SeatFree'
  <2>1. \A c \in ClassRow : ActiveIn(c)' \subseteq ActiveIn(c)
    BY <1>4 DEF ActiveIn
  <2> QED
    BY <1>0, <1>4, <2>1, DoneFree
<1>5. ASSUME NEW h \in EnrolHandler,
             \/ LockClassRow(h) \/ LockStudentRow(h) \/ LockEnrolment(h)
             \/ CountClasses(h) \/ LockWaiting(h)
      PROVE  SeatFree'
  <2>1. seat[h].at # "idle" /\ UNCHANGED <<enrolled, capacity>>
    BY <1>5 DEF LockClassRow, LockStudentRow, LockEnrolment, CountClasses, LockWaiting
  <2>2. \E at \in Statement \ {"insert"} : EnrolGoto(h, at)
    BY <1>5 DEF LockClassRow, LockStudentRow, LockEnrolment, CountClasses, LockWaiting, Statement
  <2> QED
    BY <1>3, <2>1, <2>2
<1>6. ASSUME NEW h \in EnrolHandler, CountSeats(h)
      PROVE  SeatFree'
  <2>1. seat[h].at # "idle" /\ seat[h].class \in ClassRow /\ UNCHANGED <<enrolled, capacity>>
    BY <1>0, <1>6, AtStatement DEF CountSeats, EnrolRequest
  <2>2. CASE capacity[seat[h].class] # Unlimited
             /\ Cardinality(ActiveIn(seat[h].class)) >= capacity[seat[h].class]
    BY <1>4, <1>6, <2>1, <2>2 DEF CountSeats
  <2>3. CASE ~(capacity[seat[h].class] # Unlimited
               /\ Cardinality(ActiveIn(seat[h].class)) >= capacity[seat[h].class])
    <3>1. EnrolGoto(h, "insert")
      BY <1>6, <2>3 DEF CountSeats
    <3>2. capacity[seat[h].class] = Unlimited \/ capacity[seat[h].class] \in Nat
      BY <1>0, <2>1, EnrolConstants DEF EnrolTypeOK
    <3>3. \/ capacity[seat[h].class] = Unlimited
          \/ Cardinality(ActiveIn(seat[h].class)) < capacity[seat[h].class]
      BY <2>3, <3>2, ActiveFinite
    <3> QED
      BY <1>0, <2>1, <3>1, <3>3, GotoFree DEF Statement
  <2> QED
    BY <2>2, <2>3
<1>7. ASSUME NEW h \in EnrolHandler, LockDropped(h)
      PROVE  SeatFree'
  <2>1. seat[h].at # "idle" /\ UNCHANGED <<enrolled, capacity>>
    BY <1>7 DEF LockDropped
  <2>2. EnrolDone(h) \/ EnrolGoto(h, "count")
    BY <1>7 DEF LockDropped
  <2> QED
    BY <1>3, <1>4, <2>1, <2>2 DEF Statement
<1>8. ASSUME NEW h \in EnrolHandler, TakeSeat(h)
      PROVE  SeatFree'
  \* Who else counted holds the row of another class.
  <2>1. ASSUME NEW k \in EnrolHandler \ {h}, NEW c \in ClassRow,
               seat[k].at = "insert", seat[k].class = c
        PROVE  ActiveIn(c)' \subseteq ActiveIn(c)
    <3>1. seat[k].op = "enroll" /\ seat[h].op = "enroll"
      BY <1>0, <1>8, <2>1 DEF TakeSeat, EnrolTypeInv, EnrolShape
    <3>2. HoldsClassRow(k, c)
      BY <2>1, <3>1 DEF HoldsClassRow
    <3>3. ~HoldsClassRow(h, c)
      BY <1>0, <2>1, <3>2 DEF ClassRowExclusive
    <3>4. seat[h].class # c
      BY <1>8, <3>1, <3>3 DEF TakeSeat, HoldsClassRow
    <3> QED
      BY <1>0, <1>8, <3>4, TakenSeat
  <2>2. EnrolDone(h) /\ UNCHANGED capacity
    BY <1>8 DEF TakeSeat
  <2> QED
    BY <1>0, <2>1, <2>2, DoneFree
<1>9. ASSUME NEW h \in EnrolHandler, LeaveSeat(h)
      PROVE  SeatFree'
  <2>1. \A c \in ClassRow : ActiveIn(c)' \subseteq ActiveIn(c)
    BY <1>0, <1>9, LeftSeat
  <2>2. EnrolDone(h) /\ UNCHANGED capacity
    BY <1>9 DEF LeaveSeat
  <2> QED
    BY <1>0, <2>1, <2>2, DoneFree
<1>10. ASSUME NEW h \in EnrolHandler, EnrolVictim(h)
       PROVE  SeatFree'
  BY <1>4, <1>10 DEF EnrolVictim
<1>11. ASSUME NEW c \in ClassRow, NEW n \in MaxSize, SetMaxSize(c, n)
       PROVE  SeatFree'
  \* The size of a class changes only while nobody holds its row.
  <2>1. ASSUME NEW k \in EnrolHandler, seat[k].at = "insert"
        PROVE  seat[k].class # c
    BY <1>0, <1>11, <2>1 DEF SetMaxSize, EnrolTypeInv, EnrolShape, HoldsClassRow
  <2>2. \A d \in ClassRow : d # c => capacity'[d] = capacity[d]
    BY <1>0, <1>11 DEF SetMaxSize, EnrolTypeOK
  <2>3. UNCHANGED <<enrolled, seat>>
    BY <1>11 DEF SetMaxSize
  <2>4. \A k \in EnrolHandler : seat[k].at = "insert" => seat[k].class \in ClassRow
    BY <1>0, AtStatement DEF EnrolRequest
  <2> QED
    BY <1>0, <2>1, <2>2, <2>3, <2>4 DEF SeatFree, ActiveIn
<1> QED
  BY <1>1, <1>2, <1>5, <1>6, <1>7, <1>8, <1>9, <1>10, <1>11 DEF EnrolNext

LEMMA EnrolInitFree == EnrolInit => CapacityInv
<1>1. ASSUME EnrolInit, NEW h \in EnrolHandler
      PROVE  seat[h].at = "idle" /\ seat[h].op = "none"
  BY <1>1 DEF EnrolInit, EnrolIdle
<1>2. EnrolInit => ClassRowExclusive /\ SeatFree
  BY <1>1 DEF ClassRowExclusive, HoldsClassRow, SeatFree
<1> QED
  BY <1>2, EnrolInitTyped DEF CapacityInv

\* The seat TakeSeat gives is one of those the class had left.
LEMMA SeatGiven ==
  ASSUME CapacityInv, NEW h \in EnrolHandler, TakeSeat(h), NEW c \in ClassRow
  PROVE  \/ capacity[c] = Unlimited
         \/ ActiveIn(c)' \subseteq ActiveIn(c)
         \/ Cardinality(ActiveIn(c)') <= capacity[c]
<1>1. CASE ~(seat[h].at = "insert" /\ seat[h].class = c)
  BY <1>1, TakenSeat DEF CapacityInv
<1>2. CASE seat[h].at = "insert" /\ seat[h].class = c
  <2> DEFINE S == ActiveIn(c) \union {seat[h].student}
  <2>1. \/ capacity[c] = Unlimited
        \/ Cardinality(ActiveIn(c)) < capacity[c]
    BY <1>2 DEF CapacityInv, SeatFree
  <2>2. ActiveIn(c)' \in SUBSET S
    BY <1>2, TakenSeat DEF CapacityInv
  <2>3. IsFiniteSet(S) /\ Cardinality(S) <= Cardinality(ActiveIn(c)) + 1
    <3>1. Cardinality(S) \in {Cardinality(ActiveIn(c)), Cardinality(ActiveIn(c)) + 1}
          /\ IsFiniteSet(S)
      BY ActiveFinite, FS_AddElement
    <3> QED
      BY <3>1, ActiveFinite
  <2>4. Cardinality(ActiveIn(c)') <= Cardinality(S)
    BY <2>2, <2>3, FS_Subset
  <2>5. Cardinality(S) \in Nat /\ Cardinality(ActiveIn(c)') \in Nat
    BY <2>2, <2>3, FS_Subset, FS_CardinalityType
  <2>6. capacity[c] = Unlimited \/ capacity[c] \in Nat
    BY EnrolConstants DEF CapacityInv, EnrolTypeInv, EnrolTypeOK
  <2> QED
    BY <2>1, <2>3, <2>4, <2>5, <2>6, ActiveFinite
<1> QED
  BY <1>1, <1>2

LEMMA EnrolStepKeepsSize ==
  ASSUME CapacityInv, [EnrolNext]_enrolVars, NEW c \in ClassRow
  PROVE  \/ capacity[c] = Unlimited
         \/ ActiveIn(c)' \subseteq ActiveIn(c)
         \/ Cardinality(ActiveIn(c)') <= capacity[c]
<1>0. EnrolTypeInv
  BY DEF CapacityInv
<1>1. CASE enrolled' = enrolled
  BY <1>1 DEF ActiveIn
<1>2. ASSUME NEW h \in EnrolHandler, TakeSeat(h)
      PROVE  \/ capacity[c] = Unlimited
             \/ ActiveIn(c)' \subseteq ActiveIn(c)
             \/ Cardinality(ActiveIn(c)') <= capacity[c]
  BY <1>2, SeatGiven
<1>3. ASSUME NEW h \in EnrolHandler, LeaveSeat(h)
      PROVE  ActiveIn(c)' \subseteq ActiveIn(c)
  BY <1>0, <1>3, LeftSeat
<1> QED
  BY <1>1, <1>2, <1>3
     DEF EnrolNext, enrolVars, RequestSeat, LockClassRow, LockStudentRow, LockEnrolment,
         CountSeats, LockDropped, CountClasses, LockWaiting, EnrolVictim, SetMaxSize

\* However enrolments and removals interleave, no enrolment takes a class beyond its
\* size: the row of the class is held from the count to the commit.
THEOREM EnrolCapacityKept == EnrolSpec => EnrolWithinCapacity
<1>1. EnrolInit => CapacityInv
  BY EnrolInitFree
<1>2. CapacityInv /\ [EnrolNext]_enrolVars => CapacityInv'
  BY EnrolStepTyped, EnrolStepExclusive, EnrolStepFree DEF CapacityInv
<1>3. CapacityInv /\ [EnrolNext]_enrolVars =>
        [\A c \in ClassRow :
           \/ capacity[c] = Unlimited
           \/ ActiveIn(c)' \subseteq ActiveIn(c)
           \/ Cardinality(ActiveIn(c)') <= capacity[c]]_enrolVars
  BY EnrolStepKeepsSize
<1> QED
  BY <1>1, <1>2, <1>3, PTL DEF EnrolSpec, EnrolWithinCapacity

-----------------------------------------------------------------------------
\* What a request read of its student is still so.
Sound(h) ==
  /\ seat[h].at = "again" => enrolled[seat[h].class][seat[h].student] = "Active"
  /\ seat[h].op = "remove" /\ seat[h].at \in {"student", "waiting"} => ~OtherClass(h)
  /\ seat[h].at = "dropped" => OtherClass(h)

\* A removal of the student is alone.
Alone(s) ==
  \A h, k \in EnrolHandler :
    h # k /\ seat[h].student = s /\ seat[k].student = s /\ seat[h].op = "remove"
      => seat[k].at = "idle"

StatusMatches(s) ==
  studies[s] = "Studying" <=> \E c \in ClassRow : enrolled[c][s] = "Active"

Steady(s) ==
  /\ StatusMatches(s)
  /\ Alone(s)
  /\ \A h \in EnrolHandler : seat[h].student = s => Sound(h)

RosterInv == EnrolTypeInv /\ \A s \in StudentRow \ overlapped : Steady(s)

LEMMA GotoSteady ==
  ASSUME EnrolTypeInv, NEW h \in EnrolHandler, NEW at \in Statement, EnrolGoto(h, at),
         seat[h].at # "idle", UNCHANGED <<enrolled, studies>>,
         NEW s \in StudentRow, Steady(s),
         seat[h].student = s =>
           /\ at = "again" => enrolled[seat[h].class][s] = "Active"
           /\ seat[h].op = "remove" /\ at \in {"student", "waiting"} => ~OtherClass(h)
           /\ at = "dropped" => OtherClass(h)
  PROVE  Steady(s)'
<1>1. /\ seat'[h].at = at /\ seat'[h].op = seat[h].op
      /\ seat'[h].class = seat[h].class /\ seat'[h].student = seat[h].student
      /\ \A k \in EnrolHandler \ {h} : seat'[k] = seat[k]
  BY GotoTyped DEF EnrolTypeInv
<1>2. StatusMatches(s)'
  BY DEF Steady, StatusMatches
<1>3. Alone(s)'
  BY <1>1 DEF Steady, Alone
<1>4. ASSUME NEW k \in EnrolHandler, seat'[k].student = s
      PROVE  Sound(k)'
  <2>1. CASE k = h
    BY <1>1, <1>4, <2>1 DEF Sound, OtherClass
  <2>2. CASE k # h
    BY <1>1, <1>4, <2>2 DEF Steady, Sound, OtherClass
  <2> QED
    BY <2>1, <2>2
<1> QED
  BY <1>2, <1>3, <1>4 DEF Steady

\* A request that ends leaves alone what the other requests of its student read:
\* an enrolment meets only enrolments, and a removal none.
LEMMA DoneSteady ==
  ASSUME EnrolTypeInv, NEW h \in EnrolHandler, EnrolDone(h),
         NEW s \in StudentRow, Steady(s), StatusMatches(s)',
         \/ \A c \in ClassRow : enrolled'[c][s] = enrolled[c][s]
         \/ /\ seat[h].student = s /\ seat[h].op = "enroll"
            /\ \A c \in ClassRow : enrolled[c][s] = "Active" => enrolled'[c][s] = "Active"
         \/ seat[h].student = s /\ seat[h].op = "remove"
  PROVE  Steady(s)'
<1>1. /\ seat'[h].at = "idle" /\ seat'[h].op = "none"
      /\ \A k \in EnrolHandler \ {h} : seat'[k] = seat[k]
  BY DoneTyped DEF EnrolTypeInv
<1>2. Alone(s)'
  BY <1>1 DEF Steady, Alone
<1>3. ASSUME NEW k \in EnrolHandler, seat'[k].student = s
      PROVE  Sound(k)'
  <2>1. CASE seat'[k].at = "idle"
    BY <1>1, <2>1 DEF Sound
  <2>2. CASE seat'[k].at # "idle"
    <3>1. k # h /\ seat'[k] = seat[k] /\ seat[k].student = s /\ Sound(k)
      BY <1>1, <1>3, <2>2 DEF Steady
    <3>2. seat[k].class \in ClassRow /\ seat[k].op \in {"enroll", "remove"}
      BY <2>2, <3>1, AtStatement DEF EnrolTypeInv, EnrolRequest
    <3>3. CASE \A c \in ClassRow : enrolled'[c][s] = enrolled[c][s]
      BY <3>1, <3>2, <3>3 DEF Sound, OtherClass
    <3>4. CASE /\ seat[h].student = s /\ seat[h].op = "enroll"
               /\ \A c \in ClassRow : enrolled[c][s] = "Active" => enrolled'[c][s] = "Active"
      <4>1. seat[h].at # "idle"
        <5>1. EnrolIdle.op = "none"
          BY DEF EnrolIdle
        <5>2. seat[h] \in EnrolRequest
          BY <3>4, <5>1 DEF EnrolTypeInv, EnrolTypeOK
        <5> QED
          BY <5>2 DEF EnrolRequest
      <4>2. seat[k].op = "enroll"
        BY <3>1, <3>2, <3>4, <4>1 DEF Steady, Alone
      <4>3. seat[k].at # "dropped"
        BY <4>2 DEF EnrolTypeInv, EnrolShape
      <4> QED
        BY <3>1, <3>2, <3>4, <4>2, <4>3 DEF Sound
    <3>5. CASE seat[h].student = s /\ seat[h].op = "remove"
      BY <2>2, <3>1, <3>5 DEF Steady, Alone
    <3> QED
      BY <3>3, <3>4, <3>5
  <2> QED
    BY <2>1, <2>2
<1> QED
  BY <1>2, <1>3 DEF Steady

LEMMA RequestSteady ==
  ASSUME EnrolTypeInv, NEW h \in EnrolHandler, NEW op \in {"enroll", "remove"},
         NEW c \in ClassRow, NEW t \in StudentRow, RequestSeat(h, op, c, t),
         NEW s \in StudentRow, Steady(s), s \notin overlapped'
  PROVE  Steady(s)'
<1>1. /\ seat'[h].op = op /\ seat'[h].student = t
      /\ seat'[h].at = IF op = "enroll" THEN "class" ELSE "row"
      /\ \A k \in EnrolHandler \ {h} : seat'[k] = seat[k]
      /\ UNCHANGED <<enrolled, studies>>
  BY DEF RequestSeat, EnrolTypeInv, EnrolTypeOK
<1>2. StatusMatches(s)'
  BY <1>1 DEF Steady, StatusMatches
<1>3. s = t => ~Overlaps(op, s)
  BY DEF RequestSeat
<1>4. Alone(s)'
  <2>1. CASE s = t
    BY <1>1, <1>3, <2>1 DEF Steady, Alone, Overlaps
  <2>2. CASE s # t
    BY <1>1, <2>2 DEF Steady, Alone
  <2> QED
    BY <2>1, <2>2
<1>5. ASSUME NEW k \in EnrolHandler, seat'[k].student = s
      PROVE  Sound(k)'
  <2>1. CASE k = h
    BY <1>1, <2>1 DEF Sound
  <2>2. CASE k # h
    BY <1>1, <1>5, <2>2 DEF Steady, Sound, OtherClass
  <2> QED
    BY <2>1, <2>2
<1> QED
  BY <1>2, <1>4, <1>5 DEF Steady

\* Enrolling makes the student study, with a class.
LEMMA TakeSteady ==
  ASSUME EnrolTypeInv, NEW h \in EnrolHandler, TakeSeat(h),
         NEW s \in StudentRow, Steady(s)
  PROVE  Steady(s)'
<1>1. seat[h].class \in ClassRow /\ seat[h].student \in StudentRow /\ seat[h].op = "enroll"
  BY AtStatement DEF TakeSeat, EnrolTypeInv, EnrolShape, EnrolRequest
<1>2. CASE seat[h].student # s
  <2>1. (\A c \in ClassRow : enrolled'[c][s] = enrolled[c][s]) /\ studies'[s] = studies[s]
    BY <1>1, <1>2 DEF TakeSeat, EnrolTypeInv, EnrolTypeOK
  <2>2. StatusMatches(s)'
    BY <2>1 DEF Steady, StatusMatches
  <2> QED
    BY <2>1, <2>2, DoneSteady DEF TakeSeat
<1>3. CASE seat[h].student = s
  <2>1. studies'[s] = "Studying"
    BY <1>1, <1>3 DEF TakeSeat, EnrolTypeInv, EnrolTypeOK
  <2>2. enrolled'[seat[h].class][s] = "Active"
    <3>1. CASE seat[h].at = "insert"
      <4>1. enrolled' = [enrolled EXCEPT ![seat[h].class] =
                           [@ EXCEPT ![seat[h].student] = "Active"]]
        BY <3>1 DEF TakeSeat
      <4> QED
        BY <1>1, <1>3, <4>1 DEF EnrolTypeInv, EnrolTypeOK
    <3>2. CASE seat[h].at # "insert"
      BY <1>3, <3>2 DEF TakeSeat, Steady, Sound
    <3> QED
      BY <3>1, <3>2
  <2>3. \A c \in ClassRow : enrolled[c][s] = "Active" => enrolled'[c][s] = "Active"
    BY <1>1, <1>3 DEF TakeSeat, EnrolTypeInv, EnrolTypeOK
  <2>4. StatusMatches(s)'
    BY <1>1, <2>1, <2>2 DEF StatusMatches
  <2> QED
    BY <1>1, <1>3, <2>3, <2>4, DoneSteady DEF TakeSeat
<1> QED
  BY <1>2, <1>3

\* Leaving makes the student wait exactly when the class was the last one.
LEMMA LeaveSteady ==
  ASSUME EnrolTypeInv, NEW h \in EnrolHandler, LeaveSeat(h),
         NEW s \in StudentRow, Steady(s)
  PROVE  Steady(s)'
<1>1. seat[h].class \in ClassRow /\ seat[h].student \in StudentRow /\ seat[h].op = "remove"
  BY AtStatement DEF LeaveSeat, EnrolTypeInv, EnrolShape, EnrolRequest
<1>2. CASE seat[h].student # s
  <2>1. (\A c \in ClassRow : enrolled'[c][s] = enrolled[c][s]) /\ studies'[s] = studies[s]
    BY <1>1, <1>2 DEF LeaveSeat, EnrolTypeInv, EnrolTypeOK
  <2>2. StatusMatches(s)'
    BY <2>1 DEF Steady, StatusMatches
  <2> QED
    BY <2>1, <2>2, DoneSteady DEF LeaveSeat
<1>3. CASE seat[h].student = s
  <2>1. \A c \in ClassRow : enrolled'[c][s] = IF c = seat[h].class THEN "Dropped" ELSE enrolled[c][s]
    BY <1>1, <1>3 DEF LeaveSeat, EnrolTypeInv, EnrolTypeOK
  <2>2. (\E c \in ClassRow : enrolled'[c][s] = "Active") <=> OtherClass(h)
    BY <1>1, <1>3, <2>1 DEF OtherClass
  <2>3. CASE seat[h].at = "waiting"
    <3>1. ~OtherClass(h)
      BY <1>1, <1>3, <2>3 DEF Steady, Sound
    <3>2. studies'[s] = "Waiting for class"
      BY <1>1, <1>3, <2>3 DEF LeaveSeat, EnrolTypeInv, EnrolTypeOK
    <3>3. StatusMatches(s)'
      BY <2>2, <3>1, <3>2 DEF StatusMatches
    <3> QED
      BY <1>1, <1>3, <3>3, DoneSteady DEF LeaveSeat
  <2>4. CASE seat[h].at = "dropped"
    <3>1. OtherClass(h)
      BY <1>3, <2>4 DEF Steady, Sound
    <3>2. studies'[s] = studies[s] /\ studies[s] = "Studying"
      BY <1>3, <2>4, <3>1 DEF LeaveSeat, Steady, StatusMatches, OtherClass
    <3>3. StatusMatches(s)'
      BY <2>2, <3>1, <3>2 DEF StatusMatches
    <3> QED
      BY <1>1, <1>3, <3>3, DoneSteady DEF LeaveSeat
  <2> QED
    BY <2>3, <2>4 DEF LeaveSeat
<1> QED
  BY <1>2, <1>3

LEMMA EnrolStepSteady ==
  ASSUME EnrolTypeInv, [EnrolNext]_enrolVars,
         NEW s \in StudentRow, Steady(s), s \notin overlapped'
  PROVE  Steady(s)'
<1>1. CASE UNCHANGED enrolVars
  BY <1>1 DEF enrolVars, Steady, StatusMatches, Alone, Sound, OtherClass
<1>2. ASSUME NEW h \in EnrolHandler, NEW op \in {"enroll", "remove"},
             NEW c \in ClassRow, NEW t \in StudentRow, RequestSeat(h, op, c, t)
      PROVE  Steady(s)'
  BY <1>2, RequestSteady
<1>3. ASSUME NEW h \in EnrolHandler,
             NEW at \in {"student", "row", "count", "insert"}, EnrolGoto(h, at),
             seat[h].at # "idle", UNCHANGED <<enrolled, studies>>,
             at = "student" => seat[h].op = "enroll"
      PROVE  Steady(s)'
  BY <1>3, GotoSteady DEF Statement
<1>4. ASSUME NEW h \in EnrolHandler, EnrolDone(h), UNCHANGED <<enrolled, studies>>
      PROVE  Steady(s)'
  <2>1. StatusMatches(s)'
    BY <1>4 DEF Steady, StatusMatches
  <2> QED
    BY <1>4, <2>1, DoneSteady
<1>5. ASSUME NEW h \in EnrolHandler, LockClassRow(h)
      PROVE  Steady(s)'
  <2>1. seat[h].op = "enroll"
    BY <1>5 DEF LockClassRow, EnrolTypeInv, EnrolShape
  <2> QED
    BY <1>3, <1>5, <2>1 DEF LockClassRow
<1>6. ASSUME NEW h \in EnrolHandler, LockStudentRow(h)
      PROVE  Steady(s)'
  BY <1>3, <1>6 DEF LockStudentRow
<1>7. ASSUME NEW h \in EnrolHandler, LockEnrolment(h)
      PROVE  Steady(s)'
  <2>1. CASE enrolled[seat[h].class][seat[h].student] = "Active"
    <3>1. EnrolGoto(h, "again") /\ seat[h].at # "idle" /\ UNCHANGED <<enrolled, studies>>
      BY <1>7, <2>1 DEF LockEnrolment
    <3> QED
      BY <2>1, <3>1, GotoSteady DEF Statement
  <2>2. CASE enrolled[seat[h].class][seat[h].student] # "Active"
    BY <1>3, <1>7, <2>2 DEF LockEnrolment
  <2> QED
    BY <2>1, <2>2
<1>8. ASSUME NEW h \in EnrolHandler, CountSeats(h) \/ LockDropped(h)
      PROVE  Steady(s)'
  <2>1. seat[h].at # "idle" /\ UNCHANGED <<enrolled, studies>>
    BY <1>8 DEF CountSeats, LockDropped
  <2>2. EnrolDone(h) \/ EnrolGoto(h, "insert") \/ EnrolGoto(h, "count")
    BY <1>8 DEF CountSeats, LockDropped
  <2> QED
    BY <1>3, <1>4, <2>1, <2>2
<1>9. ASSUME NEW h \in EnrolHandler, CountClasses(h)
      PROVE  Steady(s)'
  <2>1. seat[h].at # "idle" /\ UNCHANGED <<enrolled, studies>>
    BY <1>9 DEF CountClasses
  <2>2. CASE OtherClass(h)
    <3>1. EnrolGoto(h, "dropped")
      BY <1>9, <2>2 DEF CountClasses
    <3> QED
      BY <2>1, <2>2, <3>1, GotoSteady DEF Statement
  <2>3. CASE ~OtherClass(h)
    <3>1. EnrolGoto(h, "student")
      BY <1>9, <2>3 DEF CountClasses
    <3> QED
      BY <2>1, <2>3, <3>1, GotoSteady DEF Statement
  <2> QED
    BY <2>2, <2>3
<1>10. ASSUME NEW h \in EnrolHandler, LockWaiting(h)
       PROVE  Steady(s)'
  <2>1. seat[h].student = s => ~OtherClass(h)
    BY <1>10 DEF LockWaiting, Steady, Sound
  <2> QED
    BY <1>10, <2>1, GotoSteady DEF LockWaiting, Statement
<1>11. ASSUME NEW h \in EnrolHandler, EnrolVictim(h)
       PROVE  Steady(s)'
  BY <1>4, <1>11 DEF EnrolVictim
<1>12. ASSUME NEW c \in ClassRow, NEW n \in MaxSize, SetMaxSize(c, n)
       PROVE  Steady(s)'
  BY <1>12 DEF SetMaxSize, Steady, StatusMatches, Alone, Sound, OtherClass
<1> QED
  BY <1>1, <1>2, <1>5, <1>6, <1>7, <1>8, <1>9, <1>10, <1>11, <1>12, TakeSteady, LeaveSteady
     DEF EnrolNext

\* Studying with an Active class and waiting without: so it is, at every moment, for
\* every student of whom no removal overlapped another request.
THEOREM EnrolStatusFollows == EnrolSpec => []StatusFollowsRoster
<1>1. EnrolInit => RosterInv
  <2> SUFFICES ASSUME EnrolInit PROVE RosterInv
    OBVIOUS
  <2>1. \A h \in EnrolHandler : seat[h].at = "idle" /\ seat[h].op = "none"
    BY DEF EnrolInit, EnrolIdle
  <2>2. ASSUME NEW s \in StudentRow PROVE Steady(s)
    BY <2>1 DEF EnrolInit, Steady, StatusMatches, Alone, Sound
  <2> QED
    BY <2>2, EnrolInitTyped DEF RosterInv
<1>2. RosterInv /\ [EnrolNext]_enrolVars => RosterInv'
  <2> SUFFICES ASSUME RosterInv, [EnrolNext]_enrolVars PROVE RosterInv'
    OBVIOUS
  <2>1. EnrolTypeInv'
    BY EnrolStepTyped DEF RosterInv
  <2>2. overlapped \subseteq overlapped'
    BY DEF EnrolNext, enrolVars, RequestSeat, LockClassRow, LockStudentRow, LockEnrolment,
           CountSeats, TakeSeat, LockDropped, CountClasses, LockWaiting, LeaveSeat,
           EnrolVictim, SetMaxSize
  <2>3. ASSUME NEW s \in StudentRow \ overlapped' PROVE Steady(s)'
    BY <2>2, EnrolStepSteady DEF RosterInv
  <2> QED
    BY <2>1, <2>3 DEF RosterInv
<1>3. RosterInv => StatusFollowsRoster
  BY DEF RosterInv, Steady, StatusMatches, StatusFollowsRoster
<1> QED
  BY <1>1, <1>2, <1>3, PTL DEF EnrolSpec

-----------------------------------------------------------------------------
(* Accounts                                                                *)

\* Types, and what each kind of plan has read
AccountTyped ==
  /\ account \in [AccountId -> Login \union {NoOne}]
  /\ person \in [Person -> PersonRow \union {NoOne}]
  /\ editor \in [Editor -> Task \union {NoOne}]
  /\ mixed \in BOOLEAN

PlansTyped ==
  \A e \in Editor : editor[e] # NoOne =>
    /\ editor[e].do \in {"create", "rename"} => editor[e].login \in Login
    /\ editor[e].do \in {"rename", "delete", "count"} => editor[e].old \in AccountId
    /\ editor[e].do = "rename" => editor[e].user = editor[e].old
    /\ editor[e].do = "save" => editor[e].user \in AccountId
    /\ editor[e].do \in {"remove", "count"} => editor[e].user = NoOne

\* Unless another request has written since, the account to link exists, and an
\* account to delete is used by nobody else than the student who leaves it for
\* another one.
PlanHolds(e) ==
  /\ editor[e].do = "save" => account[editor[e].user] # NoOne
  /\ editor[e].do = "delete" =>
       /\ Sharing(editor[e].old) \subseteq IF editor[e].user = NoOne THEN {} ELSE {editor[e].of}
       /\ editor[e].user # NoOne =>
            editor[e].user # editor[e].old /\ account[editor[e].user] # NoOne

PlansHold == \A e \in Editor : editor[e] # NoOne => editor[e].stale \/ PlanHolds(e)

\* A student who has lost the account is about to be linked to another one.
LinkedSoon ==
  ~mixed => \A c \in Child : person[c] # NoOne =>
    \/ person[c].user # NoOne
    \/ \E e \in Editor : Doing(e, "save") /\ editor[e].of = c

AccountInv == AccountTyped /\ PlansTyped /\ PlansHold /\ LinkedSoon

\* Reading changes nothing but the plan of the request that reads.
LEMMA ReadKeeps ==
  ASSUME AccountInv, NEW e \in Editor, NEW plan \in Task, Reads(e, plan),
         plan.do \in {"create", "rename"} => plan.login \in Login,
         plan.do \in {"rename", "delete", "count"} => plan.old \in AccountId,
         plan.do = "rename" => plan.user = plan.old,
         plan.do = "save" => plan.user \in AccountId /\ account[plan.user] # NoOne,
         plan.do \in {"remove", "count"} => plan.user = NoOne,
         plan.do = "delete" =>
           /\ Sharing(plan.old) \subseteq IF plan.user = NoOne THEN {} ELSE {plan.of}
           /\ plan.user # NoOne => plan.user # plan.old /\ account[plan.user] # NoOne
  PROVE  AccountInv'
<1>1. /\ editor[e] = NoOne /\ editor' = [editor EXCEPT ![e] = plan]
      /\ UNCHANGED <<account, person, mixed>>
  BY DEF Reads
<1>2. /\ editor' \in [Editor -> Task \union {NoOne}]
      /\ editor'[e] = plan /\ \A d \in Editor \ {e} : editor'[d] = editor[d]
  BY <1>1 DEF AccountInv, AccountTyped
<1>3. AccountTyped' /\ PlansTyped'
  BY <1>1, <1>2 DEF AccountInv, AccountTyped, PlansTyped
<1>4. PlansHold'
  <2>1. ASSUME NEW d \in Editor, editor'[d] # NoOne PROVE editor'[d].stale \/ PlanHolds(d)'
    <3>1. CASE d = e
      BY <1>1, <1>2, <3>1 DEF PlanHolds, Sharing
    <3>2. CASE d # e
      BY <1>1, <1>2, <2>1, <3>2 DEF AccountInv, PlansHold, PlanHolds, Sharing
    <3> QED
      BY <3>1, <3>2
  <2> QED
    BY <2>1 DEF PlansHold
<1>5. LinkedSoon'
  <2>1. \A d \in Editor : Doing(d, "save") => Doing(d, "save")' /\ editor'[d].of = editor[d].of
    BY <1>1, <1>2 DEF Doing
  <2> QED
    BY <1>1, <2>1 DEF AccountInv, LinkedSoon
<1> QED
  BY <1>3, <1>4, <1>5 DEF AccountInv

\* What Plan returns
LEMMA PlanTyped ==
  ASSUME NEW plan \in {"create", "save", "rename", "delete", "remove", "count"},
         NEW p \in Person, NEW login \in Login \union {NoOne},
         NEW old \in AccountId \union {NoOne}, NEW user \in AccountId \union {NoOne}
  PROVE  /\ Plan(plan, p, login, old, user) \in Task
         /\ Plan(plan, p, login, old, user).do = plan
         /\ Plan(plan, p, login, old, user).of = p
         /\ Plan(plan, p, login, old, user).login = login
         /\ Plan(plan, p, login, old, user).old = old
         /\ Plan(plan, p, login, old, user).user = user
  BY DEF Plan, Task

\* The account found by a login
LEMMA FoundAccount ==
  ASSUME AccountTyped, NEW login \in Login, AccountsOf(login) # {}
  PROVE  LET u == CHOOSE u \in AccountsOf(login) : TRUE
         IN u \in AccountId /\ account[u] = login /\ account[u] # NoOne
  BY AccountConstants DEF AccountsOf, AccountTyped

\* An account that one student of it shares with nobody
LEMMA SharedByOne ==
  ASSUME NEW c \in Child, NEW u, person[c] # NoOne, person[c].user = u, Cardinality(Sharing(u)) <= 1
  PROVE  Sharing(u) \subseteq {c}
<1>1. c \in Sharing(u) /\ IsFiniteSet(Sharing(u))
  BY AccountConstants, FS_Subset DEF Sharing
<1>2. SUFFICES ASSUME NEW d \in Sharing(u), d # c PROVE FALSE
  OBVIOUS
<1>3. {c, d} \subseteq Sharing(u)
  BY <1>1, <1>2
<1>4. Cardinality({c, d}) = 2
  <2>1. Cardinality({c}) = 1 /\ IsFiniteSet({c})
    BY FS_Singleton
  <2>2. Cardinality({c} \union {d}) = Cardinality({c}) + 1
    BY <1>2, <2>1, FS_AddElement
  <2>3. {c} \union {d} = {c, d}
    OBVIOUS
  <2> QED
    BY <2>1, <2>2, <2>3
<1>5. Cardinality({c, d}) <= Cardinality(Sharing(u))
  BY <1>1, <1>3, FS_Subset
<1>6. Cardinality(Sharing(u)) \in Nat
  BY <1>1, FS_CardinalityType
<1> QED
  BY <1>4, <1>5, <1>6

\* The account of somebody
LEMMA RowTyped ==
  ASSUME AccountTyped, NEW p \in Person, person[p] # NoOne
  PROVE  person[p].user \in AccountId \union {NoOne}
  BY DEF AccountTyped, PersonRow

\* A student is added or changed.
LEMMA StudentReads ==
  ASSUME AccountInv, NEW e \in Editor, NEW c \in Child, NEW login \in Login,
         AddStudent(e, c, login) \/ UpdateStudent(e, c, login)
  PROVE  AccountInv'
<1> DEFINE found == CHOOSE u \in AccountsOf(login) : TRUE
           old == person[c].user
<1> HIDE DEF found, old
<1>1. c \in Person /\ login # NoOne /\ AccountTyped
  BY AccountConstants DEF Person, AccountInv
<1>2. AccountsOf(login) # {} =>
        found \in AccountId /\ account[found] = login /\ account[found] # NoOne
  BY <1>1, FoundAccount DEF found
<1>3. person[c] # NoOne => old \in AccountId \union {NoOne}
  BY <1>1, RowTyped DEF old
<1>4. person[c] # NoOne /\ Cardinality(Sharing(old)) <= 1 => Sharing(old) \subseteq {c}
  BY SharedByOne DEF old
<1>5. CASE \/ person[c] = NoOne /\ AccountsOf(login) = {} /\ Reads(e, Plan("create", c, login, NoOne, NoOne))
           \/ person[c] # NoOne /\ Reads(e, Plan("create", c, login, NoOne, NoOne))
  BY <1>1, <1>5, PlanTyped, ReadKeeps
<1>6. CASE AccountsOf(login) # {} /\ Reads(e, Plan("save", c, login, NoOne, found))
  BY <1>1, <1>2, <1>6, PlanTyped, ReadKeeps
<1>7. CASE /\ person[c] # NoOne /\ old # NoOne /\ account[old] = login
           /\ Reads(e, Plan("save", c, login, NoOne, old))
  BY <1>1, <1>3, <1>7, PlanTyped, ReadKeeps
<1>8. CASE /\ person[c] # NoOne /\ old # NoOne /\ account[old] # login /\ AccountsOf(login) # {}
           /\ Cardinality(Sharing(old)) <= 1
           /\ Reads(e, Plan("delete", c, login, old, found))
  <2> DEFINE plan == Plan("delete", c, login, old, found)
  <2>1. /\ plan \in Task /\ plan.do = "delete" /\ plan.of = c /\ plan.login = login
        /\ plan.old = old /\ plan.user = found
    BY <1>1, <1>2, <1>3, <1>8, PlanTyped
  <2>2. Sharing(old) \subseteq {c} /\ found # old /\ found # NoOne /\ account[found] # NoOne
    BY <1>2, <1>4, <1>8, AccountConstants
  <2>3. Reads(e, plan)
    BY <1>8
  <2> HIDE DEF plan
  <2> QED
    BY <1>3, <1>8, <2>1, <2>2, <2>3, ReadKeeps
<1>9. CASE person[c] # NoOne /\ old # NoOne /\ Reads(e, Plan("rename", c, login, old, old))
  BY <1>1, <1>3, <1>9, PlanTyped, ReadKeeps
<1>10. CASE AddStudent(e, c, login)
  BY <1>5, <1>6, <1>10 DEF AddStudent, found
<1>11. CASE UpdateStudent(e, c, login)
  <2>1. CASE old # NoOne /\ account[old] = login
    BY <1>7, <1>11, <2>1 DEF UpdateStudent, old
  <2>2. CASE ~(old # NoOne /\ account[old] = login) /\ AccountsOf(login) # {}
    BY <1>6, <1>8, <1>11, <2>2 DEF UpdateStudent, old, found
  <2>3. CASE ~(old # NoOne /\ account[old] = login) /\ AccountsOf(login) = {}
    BY <1>5, <1>9, <1>11, <2>3 DEF UpdateStudent, old
  <2> QED
    BY <2>1, <2>2, <2>3
<1> QED
  BY <1>10, <1>11

\* A student is removed.
LEMMA StudentRemoved ==
  ASSUME AccountInv, NEW e \in Editor, NEW c \in Child, RemoveStudent(e, c)
  PROVE  AccountInv'
<1> DEFINE old == person[c].user
<1>1. c \in Person /\ AccountTyped
  BY DEF Person, AccountInv
<1>2. person[c] # NoOne /\ Reads(e, Plan("remove", c, NoOne, old, NoOne))
  BY DEF RemoveStudent
<1>3. old \in AccountId \union {NoOne}
  BY <1>1, <1>2, RowTyped
<1> HIDE DEF old
<1> QED
  BY <1>1, <1>2, <1>3, PlanTyped, ReadKeeps

\* A teacher is added or changed.
LEMMA TeacherReads ==
  ASSUME AccountInv, NEW e \in Editor, NEW t \in Tutor, NEW login \in Login,
         AddTeacher(e, t, login) \/ UpdateTeacher(e, t, login)
  PROVE  AccountInv'
<1> DEFINE old == person[t].user
<1> HIDE DEF old
<1>1. t \in Person /\ login # NoOne /\ AccountTyped
  BY AccountConstants DEF Person, AccountInv
<1>2. person[t] # NoOne => old \in AccountId \union {NoOne}
  BY <1>1, RowTyped DEF old
<1>3. CASE Reads(e, Plan("create", t, login, NoOne, NoOne))
  BY <1>1, <1>3, PlanTyped, ReadKeeps
<1>4. CASE person[t] # NoOne /\ old # NoOne /\ account[old] = login /\ Reads(e, Plan("save", t, login, NoOne, old))
  BY <1>1, <1>2, <1>4, PlanTyped, ReadKeeps
<1>5. CASE person[t] # NoOne /\ old # NoOne /\ Reads(e, Plan("rename", t, login, old, old))
  BY <1>1, <1>2, <1>5, PlanTyped, ReadKeeps
<1> QED
  BY <1>3, <1>4, <1>5 DEF AddTeacher, UpdateTeacher, old

\* A statement that writes makes every other plan stale: what has to be shown
\* of it is what it leaves to its own request, and that no account is lost.
LEMMA WriteKeeps ==
  ASSUME AccountInv, NEW e \in Editor, editor[e] # NoOne, NEW plan \in Task \union {NoOne},
         Wrote(e, plan),
         account' \in [AccountId -> Login \union {NoOne}],
         person' \in [Person -> PersonRow \union {NoOne}],
         plan # NoOne =>
           /\ plan.do \in {"create", "rename"} => plan.login \in Login
           /\ plan.do \in {"rename", "delete", "count"} => plan.old \in AccountId
           /\ plan.do = "rename" => plan.user = plan.old
           /\ plan.do = "save" => plan.user \in AccountId
           /\ plan.do \in {"remove", "count"} => plan.user = NoOne
           /\ plan.stale \/ (/\ plan.do # "delete"
                             /\ plan.do = "save" => account'[plan.user] # NoOne),
         ASSUME ~mixed, ~editor[e].stale, NEW c \in Child, person'[c] # NoOne,
                person'[c].user = NoOne
         PROVE  \/ plan # NoOne /\ plan.do = "save" /\ plan.of = c
                \/ /\ person[c] # NoOne /\ person[c].user = NoOne
                   /\ Doing(e, "save") => editor[e].of # c
  PROVE  AccountInv'
<1>1. /\ mixed' = (mixed \/ editor[e].stale)
      /\ editor' = [d \in Editor |-> IF d = e THEN plan
                                     ELSE IF editor[d] = NoOne THEN NoOne
                                     ELSE [editor[d] EXCEPT !.stale = TRUE]]
  BY DEF Wrote
<1>2. editor[e] \in Task /\ editor[e].stale \in BOOLEAN /\ mixed \in BOOLEAN
  BY DEF AccountInv, AccountTyped, Task
<1>3. ASSUME NEW d \in Editor \ {e}, editor[d] # NoOne
      PROVE  /\ editor'[d] \in Task /\ editor'[d].stale
             /\ editor'[d].do = editor[d].do /\ editor'[d].of = editor[d].of
             /\ editor'[d].login = editor[d].login /\ editor'[d].old = editor[d].old
             /\ editor'[d].user = editor[d].user /\ editor'[d] # NoOne
  <2>1. editor[d] \in Task
    BY <1>3 DEF AccountInv, AccountTyped
  <2>2. editor'[d] = [editor[d] EXCEPT !.stale = TRUE]
    BY <1>1, <1>3
  <2>3. editor'[d] \in Task
    BY <2>1, <2>2 DEF Task
  <2>4. editor'[d] # NoOne
    BY <2>3, AccountConstants
  <2> QED
    BY <2>1, <2>2, <2>3, <2>4 DEF Task
<1>4. editor'[e] = plan /\ \A d \in Editor \ {e} : editor[d] = NoOne => editor'[d] = NoOne
  BY <1>1
<1>5. AccountTyped'
  <2>1. editor' \in [Editor -> Task \union {NoOne}]
    <3>1. \A d \in Editor : editor'[d] \in Task \union {NoOne}
      BY <1>3, <1>4
    <3> QED
      BY <1>1, <3>1
  <2> QED
    BY <1>1, <1>2, <2>1 DEF AccountTyped
<1>6. PlansTyped'
  <2>1. ASSUME NEW d \in Editor, editor'[d] # NoOne
        PROVE  /\ editor'[d].do \in {"create", "rename"} => editor'[d].login \in Login
               /\ editor'[d].do \in {"rename", "delete", "count"} => editor'[d].old \in AccountId
               /\ editor'[d].do = "rename" => editor'[d].user = editor'[d].old
               /\ editor'[d].do = "save" => editor'[d].user \in AccountId
               /\ editor'[d].do \in {"remove", "count"} => editor'[d].user = NoOne
    BY <1>3, <1>4, <2>1 DEF AccountInv, PlansTyped
  <2> QED
    BY <2>1 DEF PlansTyped
<1>7. PlansHold'
  BY <1>3, <1>4 DEF PlansHold, PlanHolds
<1>8. LinkedSoon'
  <2>1. SUFFICES ASSUME ~mixed, ~editor[e].stale, NEW c \in Child, person'[c] # NoOne,
                        person'[c].user = NoOne
                 PROVE  \E d \in Editor : Doing(d, "save")' /\ editor'[d].of = c
    BY <1>1 DEF LinkedSoon
  <2>2. CASE plan # NoOne /\ plan.do = "save" /\ plan.of = c
    BY <1>4, <2>2 DEF Doing
  <2>3. CASE /\ person[c] # NoOne /\ person[c].user = NoOne
             /\ Doing(e, "save") => editor[e].of # c
    <3>1. PICK d \in Editor : Doing(d, "save") /\ editor[d].of = c
      BY <2>1, <2>3 DEF AccountInv, LinkedSoon
    <3>2. d # e
      BY <2>3, <3>1
    <3> QED
      BY <1>3, <3>1, <3>2 DEF Doing
  <2> QED
    BY <2>1, <2>2, <2>3
<1> QED
  BY <1>5, <1>6, <1>7, <1>8 DEF AccountInv

\* A request that stops without writing: if it was going to link somebody, it
\* was stale.
LEMMA StopKeeps ==
  ASSUME AccountInv, NEW e \in Editor, editor[e] # NoOne,
         editor' = [editor EXCEPT ![e] = NoOne], mixed' \in BOOLEAN, mixed => mixed',
         Doing(e, "save") => mixed', UNCHANGED <<account, person>>
  PROVE  AccountInv'
<1>1. /\ editor' \in [Editor -> Task \union {NoOne}] /\ editor'[e] = NoOne
      /\ \A d \in Editor \ {e} : editor'[d] = editor[d]
  BY DEF AccountInv, AccountTyped
<1>2. AccountTyped' /\ PlansTyped'
  BY <1>1 DEF AccountInv, AccountTyped, PlansTyped
<1>3. PlansHold'
  <2>1. ASSUME NEW d \in Editor, editor'[d] # NoOne PROVE editor'[d].stale \/ PlanHolds(d)'
    BY <1>1, <2>1 DEF AccountInv, PlansHold, PlanHolds, Sharing
  <2> QED
    BY <2>1 DEF PlansHold
<1>4. LinkedSoon'
  <2>1. \A d \in Editor : Doing(d, "save") /\ ~mixed' => Doing(d, "save")' /\ editor'[d].of = editor[d].of
    BY <1>1 DEF Doing
  <2> QED
    BY <2>1 DEF AccountInv, LinkedSoon
<1> QED
  BY <1>2, <1>3, <1>4 DEF AccountInv

\* The plan of a request that is at work
LEMMA TaskTyped ==
  ASSUME AccountInv, NEW e \in Editor, NEW what, Doing(e, what)
  PROVE  /\ editor[e] # NoOne /\ editor[e] \in Task /\ editor[e].do = what
         /\ editor[e].of \in Person /\ editor[e].stale \in BOOLEAN
         /\ editor[e].old \in AccountId \union {NoOne}
         /\ editor[e].user \in AccountId \union {NoOne}
         /\ what \in {"create", "rename"} => editor[e].login \in Login /\ editor[e].login # NoOne
         /\ what \in {"rename", "delete", "count"} => editor[e].old \in AccountId
         /\ what = "save" => editor[e].user \in AccountId
         /\ what \in {"remove", "count"} => editor[e].user = NoOne
         /\ editor[e].stale \/ PlanHolds(e)
  BY AccountConstants DEF Doing, AccountInv, AccountTyped, PlansTyped, PlansHold, Task

\* An account is created, its login free.
LEMMA CreateKeeps ==
  ASSUME AccountInv, NEW e \in Editor, CreateAccount(e)
  PROVE  AccountInv'
<1> DEFINE row == editor[e]
<1>1. Doing(e, "create")
  BY DEF CreateAccount
<1>2. row # NoOne /\ row \in Task /\ row.do = "create" /\ row.login \in Login /\ row.login # NoOne
  BY <1>1, TaskTyped
<1>3. CASE Fails(e)
  BY <1>1, <1>2, <1>3, StopKeeps DEF Fails, Doing, AccountInv, AccountTyped, Task
<1>4. CASE ~Fails(e)
  <2>1. PICK u \in AccountId :
          /\ account' = [account EXCEPT ![u] = row.login]
          /\ Wrote(e, [row EXCEPT !.do = "save", !.user = u])
          /\ UNCHANGED person
    BY <1>4 DEF CreateAccount
  <2> DEFINE plan == [row EXCEPT !.do = "save", !.user = u]
  <2>2. /\ plan \in Task /\ plan.do = "save" /\ plan.user = u /\ plan.stale = row.stale
        /\ plan # NoOne /\ Wrote(e, plan)
    BY <1>2, <2>1, AccountConstants DEF Task
  <2> HIDE DEF plan
  <2>3. account' \in [AccountId -> Login \union {NoOne}] /\ account'[u] # NoOne
    BY <1>2, <2>1 DEF AccountInv, AccountTyped
  <2>4. person' \in [Person -> PersonRow \union {NoOne}] /\ person' = person
    BY <2>1 DEF AccountInv, AccountTyped
  <2>5. ~Doing(e, "save")
    BY <1>2 DEF Doing
  <2> HIDE DEF row
  <2> QED
    BY <1>2, <2>2, <2>3, <2>4, <2>5, WriteKeeps DEF row
<1> QED
  BY <1>3, <1>4

\* An account takes another login, or comes back with it.
LEMMA RenameKeeps ==
  ASSUME AccountInv, NEW e \in Editor, RenameAccount(e)
  PROVE  AccountInv'
<1> DEFINE row == editor[e]
<1>1. Doing(e, "rename")
  BY DEF RenameAccount
<1>2. /\ row # NoOne /\ row \in Task /\ row.do = "rename" /\ row.login \in Login
      /\ row.login # NoOne /\ row.old \in AccountId /\ row.user \in AccountId \union {NoOne}
  BY <1>1, TaskTyped
<1>3. CASE Fails(e)
  BY <1>1, <1>2, <1>3, StopKeeps DEF Fails, Doing, AccountInv, AccountTyped, Task
<1>4. CASE ~Fails(e)
  <2>1. /\ account' = [account EXCEPT ![row.old] = row.login]
        /\ Wrote(e, [row EXCEPT !.do = "save"])
        /\ UNCHANGED person
    BY <1>4 DEF RenameAccount
  <2>2. row.user = row.old
    BY <1>1 DEF AccountInv, PlansTyped, Doing
  <2> DEFINE plan == [row EXCEPT !.do = "save"]
  <2>3. /\ plan \in Task /\ plan.do = "save" /\ plan.user = row.old /\ plan.stale = row.stale
        /\ plan # NoOne /\ Wrote(e, plan)
    BY <1>2, <2>1, <2>2, AccountConstants DEF Task
  <2> HIDE DEF plan
  <2>4. account' \in [AccountId -> Login \union {NoOne}] /\ account'[row.old] # NoOne
    BY <1>2, <2>1 DEF AccountInv, AccountTyped
  <2>5. person' \in [Person -> PersonRow \union {NoOne}] /\ person' = person
    BY <2>1 DEF AccountInv, AccountTyped
  <2>6. ~Doing(e, "save")
    BY <1>2 DEF Doing
  <2> HIDE DEF row
  <2> QED
    BY <1>2, <2>3, <2>4, <2>5, <2>6, WriteKeeps DEF row
<1> QED
  BY <1>3, <1>4

\* An account is deleted: only the student who leaves it loses it.
LEMMA DeleteKeeps ==
  ASSUME AccountInv, NEW e \in Editor, DeleteAccount(e)
  PROVE  AccountInv'
<1> DEFINE row == editor[e]
           plan == IF row.user = NoOne THEN NoOne ELSE [row EXCEPT !.do = "save"]
<1>1. /\ Doing(e, "delete") /\ account' = [account EXCEPT ![row.old] = NoOne]
      /\ person' = Unlinked(row.old) /\ Wrote(e, plan)
  BY DEF DeleteAccount
<1>2. /\ row # NoOne /\ row \in Task /\ row.do = "delete" /\ row.old \in AccountId
      /\ row.user \in AccountId \union {NoOne} /\ row.old # NoOne
      /\ row.stale \/ PlanHolds(e)
  BY <1>1, TaskTyped, AccountConstants
<1>3. /\ plan \in Task \union {NoOne}
      /\ row.user # NoOne => /\ plan # NoOne /\ plan.do = "save" /\ plan.user = row.user
                             /\ plan.of = row.of /\ plan.stale = row.stale
      /\ row.user = NoOne => plan = NoOne
  BY <1>2, AccountConstants DEF Task
<1> HIDE DEF plan
<1>4. account' \in [AccountId -> Login \union {NoOne}]
  BY <1>1, <1>2 DEF AccountInv, AccountTyped
<1>5. row.user # NoOne /\ ~row.stale => account'[row.user] # NoOne
  BY <1>1, <1>2 DEF PlanHolds, AccountInv, AccountTyped
<1>6. /\ person' \in [Person -> PersonRow \union {NoOne}]
      /\ \A p \in Person : person[p] = NoOne => person'[p] = NoOne
      /\ \A p \in Person : person[p] # NoOne /\ person[p].user = row.old => person'[p].user = NoOne
      /\ \A p \in Person : person[p] # NoOne /\ person[p].user # row.old => person'[p] = person[p]
  BY <1>1 DEF Unlinked, AccountInv, AccountTyped, PersonRow
<1>7. ASSUME ~row.stale, NEW c \in Child, person'[c] # NoOne, person'[c].user = NoOne
      PROVE  \/ plan # NoOne /\ plan.do = "save" /\ plan.of = c
             \/ person[c] # NoOne /\ person[c].user = NoOne /\ ~Doing(e, "save")
  <2>1. c \in Person /\ person[c] # NoOne
    BY <1>6, <1>7 DEF Person
  <2>2. CASE person[c].user = row.old
    BY <1>2, <1>3, <1>7, <2>1, <2>2 DEF PlanHolds, Sharing
  <2>3. CASE person[c].user # row.old
    BY <1>2, <1>6, <1>7, <2>1, <2>3 DEF Doing
  <2> QED
    BY <2>2, <2>3
<1> HIDE DEF row
<1> QED
  BY <1>1, <1>2, <1>3, <1>4, <1>5, <1>6, <1>7, WriteKeeps DEF row

\* A row is saved with its account.
LEMMA SaveRowKeeps ==
  ASSUME AccountInv, NEW e \in Editor, SaveRow(e)
  PROVE  AccountInv'
<1> DEFINE p == editor[e].of
           u == editor[e].user
<1>1. Doing(e, "save")
  BY DEF SaveRow
<1>2. /\ editor[e] # NoOne /\ p \in Person /\ u \in AccountId /\ u # NoOne
      /\ editor[e].stale \/ account[u] # NoOne
      /\ editor[e].stale \in BOOLEAN /\ mixed \in BOOLEAN
  BY <1>1, TaskTyped, AccountConstants DEF PlanHolds, AccountInv, AccountTyped
<1>3. CASE /\ person' = [person EXCEPT ![p] = [user |-> u]]
           /\ Wrote(e, NoOne) /\ UNCHANGED account
  <2>1. /\ person' \in [Person -> PersonRow \union {NoOne}] /\ person'[p].user = u
        /\ \A q \in Person \ {p} : person'[q] = person[q]
        /\ account' \in [AccountId -> Login \union {NoOne}]
    BY <1>2, <1>3 DEF AccountInv, AccountTyped, PersonRow
  <2>2. ASSUME NEW c \in Child, person'[c] # NoOne, person'[c].user = NoOne
        PROVE  person[c] # NoOne /\ person[c].user = NoOne /\ p # c
    BY <1>2, <2>1, <2>2 DEF Person
  <2> QED
    BY <1>2, <1>3, <2>1, <2>2, WriteKeeps
<1>4. CASE (account[u] = NoOne \/ editor[e].stale) /\ Fails(e)
  BY <1>2, <1>4, StopKeeps DEF Fails
<1> QED
  BY <1>3, <1>4 DEF SaveRow

\* A row is deleted; what is left to do is to count.
LEMMA DeleteRowKeeps ==
  ASSUME AccountInv, NEW e \in Editor, DeleteRow(e)
  PROVE  AccountInv'
<1> DEFINE row == editor[e]
           plan == IF row.old = NoOne THEN NoOne ELSE [row EXCEPT !.do = "count"]
<1>1. /\ Doing(e, "remove") /\ person' = [person EXCEPT ![row.of] = NoOne]
      /\ Wrote(e, plan) /\ UNCHANGED account
  BY DEF DeleteRow
<1>2. /\ row # NoOne /\ row \in Task /\ row.do = "remove" /\ row.of \in Person
      /\ row.old \in AccountId \union {NoOne} /\ row.user = NoOne
  BY <1>1, TaskTyped
<1>3. /\ plan \in Task \union {NoOne}
      /\ plan # NoOne => plan.do = "count" /\ plan.old \in AccountId /\ plan.user = NoOne
  BY <1>2 DEF Task
<1> HIDE DEF plan
<1>4. /\ person' \in [Person -> PersonRow \union {NoOne}] /\ person'[row.of] = NoOne
      /\ \A q \in Person \ {row.of} : person'[q] = person[q]
      /\ account' \in [AccountId -> Login \union {NoOne}]
  BY <1>1, <1>2 DEF AccountInv, AccountTyped
<1>5. ASSUME NEW c \in Child, person'[c] # NoOne, person'[c].user = NoOne
      PROVE  person[c] # NoOne /\ person[c].user = NoOne /\ ~Doing(e, "save")
  BY <1>2, <1>4, <1>5 DEF Person, Doing
<1> HIDE DEF row
<1> QED
  BY <1>1, <1>2, <1>3, <1>4, <1>5, WriteKeeps DEF row

\* Who else shares the account is counted: if nobody, it will be deleted.
LEMMA CountOthersKeeps ==
  ASSUME AccountInv, NEW e \in Editor, CountOthers(e)
  PROVE  AccountInv'
<1> DEFINE row == editor[e]
<1>1. Doing(e, "count") /\ UNCHANGED <<account, person, mixed>>
  BY DEF CountOthers
<1>2. /\ row # NoOne /\ row \in Task /\ row.do = "count" /\ row.old \in AccountId
      /\ row.user = NoOne /\ mixed \in BOOLEAN
  BY <1>1, TaskTyped DEF AccountInv, AccountTyped
<1>3. CASE Sharing(row.old) # {}
  <2>1. editor' = [editor EXCEPT ![e] = NoOne]
    BY <1>3 DEF CountOthers
  <2>2. ~Doing(e, "save")
    BY <1>2 DEF Doing
  <2> QED
    BY <1>1, <1>2, <2>1, <2>2, StopKeeps
<1>4. CASE Sharing(row.old) = {}
  <2> DEFINE plan == [row EXCEPT !.do = "delete", !.stale = FALSE]
  <2>1. editor' = [editor EXCEPT ![e] = plan]
    BY <1>4 DEF CountOthers
  <2>2. /\ plan \in Task /\ plan.do = "delete" /\ plan.old = row.old /\ plan.user = NoOne
        /\ plan # NoOne
    BY <1>2, AccountConstants DEF Task
  <2> HIDE DEF plan
  <2>3. /\ editor' \in [Editor -> Task \union {NoOne}] /\ editor'[e] = plan
        /\ \A d \in Editor \ {e} : editor'[d] = editor[d]
    BY <2>1, <2>2 DEF AccountInv, AccountTyped
  <2>4. AccountTyped' /\ PlansTyped'
    BY <1>1, <1>2, <2>2, <2>3 DEF AccountInv, AccountTyped, PlansTyped
  <2>5. PlansHold'
    <3>1. ASSUME NEW d \in Editor, editor'[d] # NoOne PROVE editor'[d].stale \/ PlanHolds(d)'
      <4>1. CASE d = e
        BY <1>1, <1>4, <2>2, <2>3, <4>1 DEF PlanHolds, Sharing
      <4>2. CASE d # e
        BY <1>1, <2>3, <3>1, <4>2 DEF AccountInv, PlansHold, PlanHolds, Sharing
      <4> QED
        BY <4>1, <4>2
    <3> QED
      BY <3>1 DEF PlansHold
  <2>6. LinkedSoon'
    <3>1. \A d \in Editor : Doing(d, "save") => Doing(d, "save")' /\ editor'[d].of = editor[d].of
      BY <1>2, <2>3 DEF Doing
    <3> QED
      BY <1>1, <3>1 DEF AccountInv, LinkedSoon
  <2> QED
    BY <2>4, <2>5, <2>6 DEF AccountInv
<1> QED
  BY <1>3, <1>4

\* The invariant holds at first.
LEMMA AccountStarts == AccountInit => AccountInv
<1> SUFFICES ASSUME AccountInit PROVE AccountInv
  OBVIOUS
<1>1. AccountTyped /\ PlansTyped /\ PlansHold /\ LinkedSoon
  BY DEF AccountInit, AccountTyped, PlansTyped, PlansHold, LinkedSoon, Person
<1> QED
  BY <1>1 DEF AccountInv

\* Every step keeps it.
LEMMA AccountKeeps == AccountInv /\ [AccountNext]_accountVars => AccountInv'
<1> SUFFICES ASSUME AccountInv, [AccountNext]_accountVars PROVE AccountInv'
  OBVIOUS
<1>1. CASE AccountNext
  <2>1. PICK e \in Editor :
          \/ \E login \in Login :
               \/ \E c \in Child : AddStudent(e, c, login) \/ UpdateStudent(e, c, login)
               \/ \E t \in Tutor : AddTeacher(e, t, login) \/ UpdateTeacher(e, t, login)
          \/ \E c \in Child : RemoveStudent(e, c)
          \/ CreateAccount(e) \/ RenameAccount(e) \/ DeleteAccount(e)
          \/ SaveRow(e) \/ DeleteRow(e) \/ CountOthers(e)
    BY <1>1 DEF AccountNext
  <2> QED
    BY <2>1, StudentReads, TeacherReads, StudentRemoved, CreateKeeps, RenameKeeps, DeleteKeeps,
       SaveRowKeeps, DeleteRowKeeps, CountOthersKeeps
<1>2. CASE UNCHANGED accountVars
  BY <1>2 DEF accountVars, AccountInv, AccountTyped, PlansTyped, PlansHold, PlanHolds, LinkedSoon,
     Doing, Sharing
<1> QED
  BY <1>1, <1>2

\* LoginKept: for any number of students, teachers, accounts and requests, a
\* student keeps an account unless two requests work on what the other changed.
THEOREM LoginsKept == AccountSpec => []LoginKept
<1>1. AccountInv => LoginKept
  BY DEF AccountInv, LinkedSoon, LoginKept, Doing
<1> QED
  BY <1>1, AccountStarts, AccountKeeps, PTL DEF AccountSpec

-----------------------------------------------------------------------------
(* Prices                                                                  *)

\* A record; listing may leave it empty.
PriceRow ==
  [type : PriceRate, from : PriceDate, to : Nat, amount : [PriceRate -> Amount]]

PriceTyped ==
  /\ price \in [PriceId -> PriceRow \union {NoPrice}]
  /\ billed \in [PriceRate -> SUBSET PriceDate]
  /\ today \in Nat

\* Only lessons of the past are billed.
BilledPast == \A r \in PriceRate : \A d \in billed[r] : d <= today

PriceInv == PriceTyped /\ BilledPast

\* A record that exists is no NoPrice.
LEMMA PricedRow ==
  ASSUME PriceTyped
  PROVE  /\ \A i \in Priced : /\ i \in PriceId /\ price[i] \in PriceRow
                              /\ price[i].from \in Nat /\ price[i].to \in Nat
         /\ \A i \in PriceId : price[i] \in PriceRow => i \in Priced
         /\ \A row \in PriceRow : row # NoPrice
<1>1. \A row \in PriceRow : row # NoPrice
  BY PriceConstants DEF PriceRow, NoPrice
<1> QED
  BY <1>1, PriceConstants DEF PriceTyped, Priced, PriceRow

\* What a request asks for is a record.
LEMMA RequestRow ==
  ASSUME NEW new \in PriceRequest
  PROVE  /\ new \in PriceRow /\ new \in Price /\ new.from <= new.to /\ new.type \in PriceRate
         /\ new.from \in Nat /\ new.to \in Nat
         /\ new.amount \in [PriceRate -> Amount] /\ \A r \in PriceRate : new.amount[r] \in Nat
  BY PriceConstants DEF PriceRequest, Price, PriceRow

\* Before is a strict order of the records of one type, and total on them.
LEMMA NextRecord ==
  ASSUME PriceTyped, NEW i \in Priced, NEW j \in Priced, NEW k \in Priced,
         Adjacent(i, j), Adjacent(i, k)
  PROVE  j = k
<1>1. /\ price[j].from \in Nat /\ price[k].from \in Nat /\ price[i].from \in Nat
      /\ j \in Nat /\ k \in Nat /\ i \in Nat
  BY PricedRow, PriceConstants
<1>2. /\ price[j].type = price[i].type /\ price[k].type = price[i].type
      /\ ~Before(j, k) /\ ~Before(k, j)
  BY DEF Adjacent, Before
<1> QED
  BY <1>1, <1>2 DEF Before

\* Listing only cuts: a record it changes keeps all but its last date, which
\* it moves to the day before a record of its type that touched it.
LEMMA ListCuts ==
  ASSUME PriceTyped, ListPrices, NEW i \in PriceId
  PROVE  \/ price'[i] = price[i]
         \/ /\ i \in Priced /\ price'[i] \in PriceRow
            /\ price'[i].type = price[i].type /\ price'[i].from = price[i].from
            /\ price'[i].amount = price[i].amount /\ price'[i].to < price[i].to
            /\ \E j \in Priced \ {i} : /\ price[j].type = price[i].type
                                       /\ price[i].from <= price[j].from
                                       /\ price[j].from <= price[i].to
<1>1. SUFFICES ASSUME price'[i] # price[i] PROVE
         /\ i \in Priced /\ price'[i] \in PriceRow
         /\ price'[i].type = price[i].type /\ price'[i].from = price[i].from
         /\ price'[i].amount = price[i].amount /\ price'[i].to < price[i].to
         /\ \E j \in Priced \ {i} : /\ price[j].type = price[i].type
                                    /\ price[i].from <= price[j].from
                                    /\ price[j].from <= price[i].to
  OBVIOUS
<1> DEFINE next == CHOOSE j \in Priced : Adjacent(i, j)
           row == [price[i] EXCEPT !.to = price[next].from - 1]
<1>2. PICK j \in Priced : i \in Priced /\ Adjacent(i, j) /\ price[j].from <= price[i].to
  BY <1>1 DEF ListPrices
<1>3. next \in Priced /\ Adjacent(i, next)
  BY <1>2
<1>4. next = j
  BY <1>2, <1>3, NextRecord
<1>5. price'[i] = row
  BY <1>2 DEF ListPrices
<1> HIDE DEF next
<1>6. /\ price[j].from \in Nat /\ price[i].from \in Nat /\ price[i].to \in Nat
      /\ price[j].from # 0 /\ price[i] \in PriceRow
  BY <1>2, PricedRow, PriceConstants DEF PriceRow
<1>7. PICK t \in Nat : t = price[j].from - 1
  BY <1>6
<1>8. row = [price[i] EXCEPT !.to = t]
  BY <1>4, <1>7
<1>9. /\ row \in PriceRow /\ row.type = price[i].type /\ row.from = price[i].from
      /\ row.amount = price[i].amount /\ row.to = t
  BY <1>6, <1>7, <1>8 DEF PriceRow
<1>10. /\ price[j].type = price[i].type /\ price[i].from <= price[j].from /\ i # j
  <2>1. i \in Nat /\ j \in Nat
    BY <1>2, PricedRow, PriceConstants
  <2> QED
    BY <1>2, <1>6, <2>1 DEF Adjacent, Before
<1> QED
  BY <1>2, <1>5, <1>6, <1>7, <1>9, <1>10

\* The tables are typed at first and after every step.
LEMMA PriceStarts == PriceInit => PriceInv
<1> SUFFICES ASSUME PriceInit PROVE PriceInv
  OBVIOUS
<1>1. Price \subseteq PriceRow
  BY PriceConstants DEF Price, PriceRow
<1>2. price \in [PriceId -> PriceRow \union {NoPrice}]
  BY <1>1, LegacyTyped DEF PriceInit
<1> QED
  BY <1>2 DEF PriceInit, PriceInv, PriceTyped, BilledPast

\* Every step of the prices and of the calendar
LEMMA PriceKeeps == PriceInv /\ [PriceNext]_priceVars => PriceInv'
<1> SUFFICES ASSUME PriceInv, [PriceNext]_priceVars PROVE PriceInv'
  OBVIOUS
<1>1. ASSUME NEW i \in PriceId, NEW row \in PriceRow \union {NoPrice},
             price' = [price EXCEPT ![i] = row], UNCHANGED <<billed, today, dateText>>
      PROVE  PriceInv'
  BY <1>1 DEF PriceInv, PriceTyped, BilledPast
<1>2. ASSUME NEW i \in PriceId, NEW new \in PriceRequest,
             CreatePrice(i, new) \/ UpdatePrice(i, new)
      PROVE  PriceInv'
  BY <1>1, <1>2, RequestRow DEF CreatePrice, UpdatePrice
<1>3. ASSUME NEW i \in PriceId, DeletePrice(i) PROVE PriceInv'
  BY <1>1, <1>3 DEF DeletePrice
<1>4. CASE ListPrices
  <2>1. \A i \in PriceId : price'[i] \in PriceRow \union {NoPrice}
    BY <1>4, ListCuts DEF PriceInv, PriceTyped
  <2>2. price' \in [PriceId -> PriceRow \union {NoPrice}]
    BY <1>4, <2>1 DEF ListPrices
  <2> QED
    BY <1>4, <2>2 DEF ListPrices, PriceInv, PriceTyped, BilledPast
<1>5. ASSUME NEW r \in PriceRate, NEW d \in PriceDate, BillLesson(r, d) PROVE PriceInv'
  <2>1. billed' \in [PriceRate -> SUBSET PriceDate]
    BY <1>5 DEF BillLesson, PriceInv, PriceTyped
  <2>2. \A q \in PriceRate : \A b \in billed'[q] : b <= today
    BY <1>5 DEF BillLesson, PriceInv, PriceTyped, BilledPast
  <2> QED
    BY <1>5, <2>1, <2>2 DEF BillLesson, PriceInv, PriceTyped, BilledPast
<1>6. CASE NextDay
  <2>1. today' = today + 1 /\ UNCHANGED <<price, billed>> /\ today \in Nat
    BY <1>6 DEF NextDay, PriceInv, PriceTyped
  <2>2. ASSUME NEW r \in PriceRate, NEW d \in billed[r] PROVE d <= today'
    <3>1. d \in Nat /\ d <= today
      BY <2>2, PriceConstants DEF PriceInv, PriceTyped, BilledPast
    <3> QED
      BY <2>1, <3>1
  <2> QED
    BY <2>1, <2>2 DEF PriceInv, PriceTyped, BilledPast
<1>7. CASE UNCHANGED priceVars
  BY <1>7 DEF priceVars, PriceInv, PriceTyped, BilledPast
<1> QED
  BY <1>2, <1>3, <1>4, <1>5, <1>6, <1>7 DEF PriceNext

\* A record, and an amount of it, at a charged date: what a step may have done
DateKept(r, d) ==
  /\ {i \in Priced : Covers(i, r, d)} \subseteq {i \in Priced' : Covers(i, r, d)'}
  /\ dateText => Charged(r, d)' = Charged(r, d)

\* Where records of a type do not overlap, a date has at most one, so that the
\* charge is settled by which record it is and by its amount.
LEMMA SameCharge ==
  ASSUME PriceInv, PriceInv', NEW r \in PriceRate, NEW d \in Nat, Disjoint(r),
         \A i \in PriceId : (i \in Priced' /\ Applies(i, r, d)') <=> (i \in Priced /\ Applies(i, r, d)),
         \A i \in Priced : Applies(i, r, d) => price'[i].amount[r] = price[i].amount[r]
  PROVE  Charged(r, d)' = Charged(r, d)
<1> DEFINE A == {i \in Priced : Applies(i, r, d)}
           B == {i \in Priced' : Applies(i, r, d)'}
<1>1. A = B
  BY DEF Priced
<1>2. CASE A = {}
  BY <1>1, <1>2 DEF Charged
<1>3. CASE A # {}
  <2>1. \A i, j \in A : i = j
    <3>1. ASSUME NEW i \in A, NEW j \in A, i # j PROVE FALSE
      <4>1. /\ price[i].type = r /\ price[j].type = r
            /\ price[i].from <= d /\ d <= price[i].to /\ price[j].from <= d /\ d <= price[j].to
        BY DEF Applies, Covers
      <4>2. /\ price[i].from \in Nat /\ price[i].to \in Nat
            /\ price[j].from \in Nat /\ price[j].to \in Nat
        BY PricedRow DEF PriceInv
      <4>3. Touch(price[i], price[j])
        BY <4>1, <4>2 DEF Touch
      <4> QED
        BY <3>1, <4>1, <4>3 DEF Disjoint
    <3> QED
      BY <3>1
  <2>2. PICK i \in A : \A j \in A : j <= i
    <3>1. PICK i \in A : TRUE
      BY <1>3
    <3>2. i \in Nat
      BY PriceConstants DEF Priced
    <3>3. \A j \in A : j <= i
      BY <2>1, <3>2
    <3> QED
      BY <3>3
  <2> DEFINE top == CHOOSE k \in A : \A j \in A : j <= k
  <2>3. top \in A
    BY <2>2
  <2>4. top = CHOOSE k \in B : \A j \in B : j <= k
    BY <1>1
  <2> HIDE DEF top
  <2>5. Charged(r, d) = price[top].amount[r]
    BY <1>3 DEF Charged, top
  <2>6. Charged(r, d)' = price'[top].amount[r]
    BY <1>1, <1>3, <2>4 DEF Charged
  <2> QED
    BY <2>3, <2>5, <2>6
<1> QED
  BY <1>2, <1>3

\* No date is after the last charged one and charged.
LEMMA SettledDate ==
  ASSUME PriceInv, NEW r \in PriceRate, NEW d \in billed[r], NEW from \in Nat,
         dateText, ~Settled(r, from)
  PROVE  d < from
  BY PriceConstants DEF Settled, PriceInv, PriceTyped

\* One step of BilledPriceFrozen
LEMMA DatesKept ==
  ASSUME PriceInv, PriceInv', [PriceNext]_priceVars,
         NEW r \in PriceRate, NEW d \in billed[r], Disjoint(r), TypesKept
  PROVE  DateKept(r, d)
<1>1. d \in Nat /\ today \in Nat /\ d <= today
  BY PriceConstants DEF PriceInv, PriceTyped, BilledPast
<1>2. CASE price' = price /\ dateText' = dateText
  BY <1>2 DEF DateKept, Priced, Covers, Charged, Applies
<1>3. ASSUME NEW k \in PriceId, NEW new \in PriceRequest, CreatePrice(k, new)
      PROVE  DateKept(r, d)
  <2>1. /\ k \notin Priced /\ price'[k] = new /\ \A i \in PriceId \ {k} : price'[i] = price[i]
        /\ new # NoPrice
    BY <1>3, RequestRow, PricedRow DEF CreatePrice, Priced, PriceInv, PriceTyped
  <2>2. \A i \in Priced : i \in Priced' /\ price'[i] = price[i]
    BY <2>1 DEF Priced
  <2>3. ASSUME dateText PROVE ~Applies(k, r, d)'
    <3>1. SUFFICES ASSUME new.type = r, new.amount[r] > 0, new.from <= d PROVE FALSE
      BY <2>1 DEF Applies, Covers
    <3>2. ~Settled(r, new.from)
      BY <1>3, <3>1 DEF CreatePrice
    <3>3. d < new.from /\ new.from \in Nat
      BY <2>3, <3>2, SettledDate, RequestRow
    <3> QED
      BY <1>1, <3>1, <3>3
  <2>4. ASSUME dateText PROVE Charged(r, d)' = Charged(r, d)
    <3>1. \A i \in PriceId : (i \in Priced' /\ Applies(i, r, d)') <=> (i \in Priced /\ Applies(i, r, d))
      BY <2>1, <2>2, <2>3, <2>4 DEF Priced, Applies, Covers
    <3>2. \A i \in Priced : Applies(i, r, d) => price'[i].amount[r] = price[i].amount[r]
      BY <2>2
    <3> QED
      BY <1>1, <3>1, <3>2, SameCharge
  <2> QED
    BY <2>2, <2>4 DEF DateKept, Covers
<1>4. ASSUME NEW k \in PriceId, NEW new \in PriceRequest, UpdatePrice(k, new)
      PROVE  DateKept(r, d)
  <2> DEFINE old == price[k]
  <2>1. /\ k \in Priced /\ price'[k] = new /\ \A i \in PriceId \ {k} : price'[i] = price[i]
        /\ new # NoPrice /\ \A i \in PriceId : i \in Priced' <=> i \in Priced
    BY <1>4, RequestRow, PricedRow DEF UpdatePrice, Priced, PriceInv, PriceTyped
  <2>2. /\ old.from \in Nat /\ old.to \in Nat /\ new.from \in Nat /\ new.to \in Nat
    BY <2>1, RequestRow, PricedRow DEF PriceInv
  <2>3. new.type = old.type
    BY <2>1 DEF TypesKept
  <2>4. /\ new.from # old.from => old.from > today /\ new.from > today
        /\ new.to # old.to => old.to > today /\ new.to >= today
    BY <1>4 DEF UpdatePrice, FromOpen, ToOpen
  <2>5. Covers(k, r, d)' <=> Covers(k, r, d)
    <3>1. (new.from <= d /\ d <= new.to) <=> (old.from <= d /\ d <= old.to)
      BY <1>1, <2>2, <2>4
    <3> QED
      BY <2>1, <2>3, <3>1 DEF Covers
  <2>6. \A i \in Priced : Covers(i, r, d)' <=> Covers(i, r, d)
    BY <2>1, <2>5 DEF Priced, Covers
  <2>7. ASSUME dateText, Covers(k, r, d) PROVE new.amount[r] = old.amount[r]
    <3>1. SUFFICES ASSUME new.amount[r] # old.amount[r] PROVE FALSE
      OBVIOUS
    <3>2. ~Settled(r, old.from)
      BY <1>4, <3>1 DEF UpdatePrice, AmountOpen
    <3>3. d < old.from
      BY <2>2, <2>7, <3>2, SettledDate
    <3> QED
      BY <1>1, <2>2, <2>7, <3>3 DEF Covers
  <2>8. ASSUME dateText PROVE Charged(r, d)' = Charged(r, d)
    <3>1. ASSUME NEW i \in Priced, Covers(i, r, d)
          PROVE  price'[i].amount[r] = price[i].amount[r]
      BY <2>1, <2>7, <2>8, <3>1 DEF Priced
    <3>2. \A i \in PriceId : (i \in Priced' /\ Applies(i, r, d)') <=> (i \in Priced /\ Applies(i, r, d))
      BY <2>1, <2>6, <3>1 DEF Applies
    <3> QED
      BY <1>1, <3>1, <3>2, SameCharge DEF Applies
  <2> QED
    BY <2>1, <2>6, <2>8 DEF DateKept, Priced
<1>5. ASSUME NEW k \in PriceId, DeletePrice(k) PROVE DateKept(r, d)
  <2>1. /\ k \in Priced /\ price'[k] = NoPrice /\ \A i \in PriceId \ {k} : price'[i] = price[i]
        /\ \A b \in billed[price[k].type] : ~(price[k].from <= b /\ b <= price[k].to)
    BY <1>5 DEF DeletePrice, Priced, PriceInv, PriceTyped
  <2>2. ~Covers(k, r, d)
    BY <2>1 DEF Covers
  <2>3. \A i \in PriceId : i \in Priced' <=> i \in Priced /\ i # k
    BY <2>1 DEF Priced
  <2>4. ASSUME dateText PROVE Charged(r, d)' = Charged(r, d)
    <3>1. \A i \in PriceId : (i \in Priced' /\ Applies(i, r, d)') <=> (i \in Priced /\ Applies(i, r, d))
      BY <2>1, <2>2, <2>3 DEF Applies, Covers
    <3>2. \A i \in Priced : Applies(i, r, d) => price'[i].amount[r] = price[i].amount[r]
      BY <2>1, <2>2 DEF Applies, Priced
    <3> QED
      BY <1>1, <3>1, <3>2, SameCharge
  <2>5. {i \in Priced : Covers(i, r, d)} \subseteq {i \in Priced' : Covers(i, r, d)'}
    BY <2>1, <2>2, <2>3 DEF Covers, Priced
  <2> QED
    BY <2>4, <2>5 DEF DateKept
<1>6. CASE ListPrices
  <2>1. \A i \in PriceId : i \in Priced' <=> i \in Priced
    BY <1>6, ListCuts, PricedRow DEF Priced, PriceInv
  <2>2. ASSUME NEW i \in Priced, price[i].type = r PROVE price'[i] = price[i]
    <3>1. SUFFICES ASSUME NEW j \in Priced, j # i, price[j].type = r,
                          price[i].from <= price[j].from, price[j].from <= price[i].to
                   PROVE  FALSE
      BY <1>6, <2>2, ListCuts DEF Priced, PriceInv
    <3>2. /\ price[j].from <= price[j].to /\ ~Touch(price[i], price[j])
      BY <2>2, <3>1 DEF Disjoint
    <3>3. /\ price[i].from \in Nat /\ price[i].to \in Nat
          /\ price[j].from \in Nat /\ price[j].to \in Nat
      BY PricedRow DEF PriceInv
    <3> QED
      BY <3>1, <3>2, <3>3 DEF Touch
  <2>3. \A i \in Priced : Covers(i, r, d)' <=> Covers(i, r, d)
    <3>1. ASSUME NEW i \in Priced PROVE price'[i].type = price[i].type
      BY <1>6, ListCuts DEF Priced, PriceInv
    <3> QED
      BY <2>2, <3>1 DEF Covers
  <2>4. \A i \in PriceId : (i \in Priced' /\ Applies(i, r, d)') <=> (i \in Priced /\ Applies(i, r, d))
    BY <2>1, <2>2, <2>3 DEF Applies, Covers
  <2>5. \A i \in Priced : Applies(i, r, d) => price'[i].amount[r] = price[i].amount[r]
    BY <2>2 DEF Applies, Covers
  <2>6. Charged(r, d)' = Charged(r, d)
    BY <1>1, <2>4, <2>5, SameCharge
  <2> QED
    BY <2>1, <2>3, <2>6 DEF DateKept, Priced
<1> QED
  BY <1>2, <1>3, <1>4, <1>5, <1>6 DEF PriceNext, BillLesson, NextDay, priceVars

\* BilledPriceFrozen: for any records, rates and dates, a charged date keeps its
\* records, and where the guard works its price.
THEOREM BilledPricesFrozen == PriceSpec => BilledPriceFrozen
<1>1. PriceInv /\ PriceInv' /\ [PriceNext]_priceVars =>
        [\A r \in PriceRate : \A d \in billed[r] :
           Disjoint(r) /\ TypesKept =>
             /\ {i \in Priced : Covers(i, r, d)} \subseteq {i \in Priced' : Covers(i, r, d)'}
             /\ dateText => Charged(r, d)' = Charged(r, d)]_priceVars
  BY DatesKept DEF DateKept
<1> QED
  BY <1>1, PriceStarts, PriceKeeps, PTL DEF PriceSpec, BilledPriceFrozen

\* One step of NoNewOverlap
LEMMA OverlapsOld ==
  ASSUME PriceInv, PriceNext, NEW i \in Priced', NEW j \in Priced', i # j,
         price'[i].type = price'[j].type, TypesKept,
         i \in Priced \/ price'[i].amount[price'[i].type] > 0,
         j \in Priced \/ price'[j].amount[price'[j].type] > 0,
         Touch(price'[i], price'[j])
  PROVE  {i, j} \subseteq Priced /\ Touch(price[i], price[j])
<1>1. i \in PriceId /\ j \in PriceId
  BY DEF Priced
<1>2. \A k \in Priced : price[k].from \in Nat /\ price[k].to \in Nat
  BY PricedRow DEF PriceInv
<1>3. CASE price' = price
  BY <1>3 DEF Priced
<1>4. ASSUME NEW k \in PriceId, NEW new \in PriceRequest, CreatePrice(k, new)
      PROVE  {i, j} \subseteq Priced /\ Touch(price[i], price[j])
  <2>1. k \notin Priced /\ price'[k] = new /\ \A m \in PriceId \ {k} : price'[m] = price[m]
    BY <1>4 DEF CreatePrice, Priced, PriceInv, PriceTyped
  <2>2. \A m \in PriceId \ {k} : m \in Priced' <=> m \in Priced
    BY <2>1 DEF Priced
  <2>3. new.type \in PriceRate /\ new.from \in Nat /\ new.to \in Nat
    BY RequestRow
  <2>4. ASSUME NEW m \in Priced, new.amount[new.type] > 0, price[m].type = new.type
        PROVE  ~Touch(new, price[m]) /\ ~Touch(price[m], new)
    <3>1. ~Overlapping(new, price[m])
      BY <1>4, <2>3, <2>4 DEF CreatePrice
    <3> QED
      BY <3>1 DEF Overlapping, Touch
  <2>5. CASE i = k
    BY <1>1, <2>1, <2>2, <2>4, <2>5
  <2>6. CASE j = k
    BY <1>1, <2>1, <2>2, <2>4, <2>6
  <2>7. CASE i # k /\ j # k
    BY <1>1, <2>1, <2>2, <2>7
  <2> QED
    BY <2>5, <2>6, <2>7
<1>5. ASSUME NEW k \in PriceId, NEW new \in PriceRequest, UpdatePrice(k, new)
      PROVE  {i, j} \subseteq Priced /\ Touch(price[i], price[j])
  <2>1. k \in Priced /\ price'[k] = new /\ \A m \in PriceId \ {k} : price'[m] = price[m]
    BY <1>5 DEF UpdatePrice, Priced, PriceInv, PriceTyped
  <2>2. \A m \in PriceId : m \in Priced' => m \in Priced
    BY <2>1 DEF Priced
  <2>3. k \in Priced' => new.type = price[k].type
    BY <2>1 DEF TypesKept
  <2>4. ASSUME NEW m \in Priced \ {k}, price[m].type = price[k].type,
               new.from # price[k].from \/ new.to # price[k].to
        PROVE  ~Touch(new, price[m]) /\ ~Touch(price[m], new)
    <3>1. ~Overlapping(new, price[m])
      BY <1>5, <2>4 DEF UpdatePrice
    <3> QED
      BY <3>1 DEF Overlapping, Touch
  <2>5. CASE i = k
    <3>1. j \in Priced \ {k} /\ price'[j] = price[j] /\ price[j].type = price[k].type
      BY <1>1, <2>1, <2>2, <2>3, <2>5
    <3>2. new.from = price[k].from /\ new.to = price[k].to
      BY <2>1, <2>4, <2>5, <3>1
    <3> QED
      BY <2>1, <2>5, <3>1, <3>2 DEF Touch
  <2>6. CASE j = k
    <3>1. i \in Priced \ {k} /\ price'[i] = price[i] /\ price[i].type = price[k].type
      BY <1>1, <2>1, <2>2, <2>3, <2>6
    <3>2. new.from = price[k].from /\ new.to = price[k].to
      BY <2>1, <2>4, <2>6, <3>1
    <3> QED
      BY <2>1, <2>6, <3>1, <3>2 DEF Touch
  <2>7. CASE i # k /\ j # k
    BY <1>1, <2>1, <2>2, <2>7
  <2> QED
    BY <2>5, <2>6, <2>7
<1>6. ASSUME NEW k \in PriceId, DeletePrice(k)
      PROVE  {i, j} \subseteq Priced /\ Touch(price[i], price[j])
  <2>1. price'[k] = NoPrice /\ \A m \in PriceId \ {k} : price'[m] = price[m]
    BY <1>6 DEF DeletePrice, Priced, PriceInv, PriceTyped
  <2> QED
    BY <1>1, <2>1 DEF Priced
<1>7. CASE ListPrices
  <2>1. ASSUME NEW k \in PriceId, k \in Priced'
        PROVE  /\ k \in Priced /\ price'[k].from = price[k].from
               /\ price'[k].to <= price[k].to /\ price'[k].to \in Nat
    <3>1. CASE price'[k] = price[k]
      BY <1>2, <2>1, <3>1 DEF Priced
    <3>2. CASE price'[k] # price[k]
      <4>1. /\ k \in Priced /\ price'[k] \in PriceRow /\ price'[k].from = price[k].from
            /\ price'[k].to < price[k].to
        BY <1>7, <3>2, ListCuts DEF PriceInv
      <4>2. price'[k].to \in Nat
        BY <4>1 DEF PriceRow
      <4> QED
        BY <1>2, <4>1, <4>2
    <3> QED
      BY <3>1, <3>2
  <2> QED
    BY <1>1, <1>2, <2>1 DEF Touch
<1> QED
  BY <1>3, <1>4, <1>5, <1>6, <1>7 DEF PriceNext, BillLesson, NextDay

\* NoNewOverlap: for any records and dates, a step makes no two records of one
\* type overlap that did not before.
THEOREM NoOverlapIsNew == PriceSpec => NoNewOverlap
<1>1. PriceInv /\ [PriceNext]_priceVars =>
        [\A i, j \in Priced' :
           LET Checked(k) == k \in Priced \/ price'[k].amount[price'[k].type] > 0
           IN i # j /\ price'[i].type = price'[j].type /\ TypesKept /\ Checked(i) /\ Checked(j)
              => \/ ~Touch(price'[i], price'[j])
                 \/ {i, j} \subseteq Priced /\ Touch(price[i], price[j])]_priceVars
  BY OverlapsOld
<1> QED
  BY <1>1, PriceStarts, PriceKeeps, PTL DEF PriceSpec, NoNewOverlap

-----------------------------------------------------------------------------
(* Billing orders                                                          *)

\* Types
BillLine ==
  [ids : SUBSET SourceId, class : Class \union {"commission", "base"},
   role : {"student", "teacher", "assistant", ""}, count : Int, rate : Int, total : Int]

OrderRow == [total : Int, sessions : Int, lines : Seq(BillLine)]

\* The lessons of an owner the loop has passed
Passed(o) == {s \in SourceId \ todo : source[s].owner = o}
Billed(o) == Sum(Passed(o), [s \in SourceId |-> Charge(s)])

BillTyped ==
  /\ kind \in {"tuition", "salary"} /\ source \in SourceTables(kind)
  /\ todo \in SUBSET SourceId
  /\ stage \in {"calculate", "adjust", "saved", "refused"}
  /\ order \in [DOMAIN order -> OrderRow] /\ DOMAIN order \in SUBSET Owner

\* Lines L hold the lessons of T, each once.
Holds(L, T) ==
  /\ \A i \in DOMAIN L : L[i].ids \in SUBSET T /\ Cardinality(L[i].ids) = L[i].count
  /\ \A s \in T : \E i \in DOMAIN L : s \in L[i].ids
  /\ \A i, j \in DOMAIN L : i # j => L[i].ids \cap L[j].ids = {}

\* Lines with lessons are at the rate and of the class of each; a line without
\* is of the class of the first.
LinesPriced(L) ==
  /\ \A i \in DOMAIN L :
       /\ L[i].ids # {} => L[i].total = L[i].count * L[i].rate
       /\ \A s \in L[i].ids : L[i].class = source[s].class /\ L[i].rate = Charge(s)
       /\ L[i].ids = {} => L[i].class = L[1].class
  /\ L[1].ids # {}

\* Net pay differs from the net pay of its lines by rounding.
Rounded(o) ==
  LET off == 2 * (order[o].total - Total(order[o].lines))
      most == IF o \in CommissionOwner THEN 0 ELSE Len(order[o].lines) + 1
  IN -most <= off /\ off <= most

\* An order of a stage: its lessons, what they cost, and its total
OrderInv(o) ==
  LET L == order[o].lines
  IN /\ L # <<>> /\ Holds(L, Passed(o))
     /\ stage = "calculate" =>
          /\ \A i \in DOMAIN L : L[i].ids # {}
          /\ order[o].total = Billed(o)
     /\ stage = "adjust" /\ kind = "tuition" => order[o].total = Billed(o)
     /\ stage = "calculate" \/ kind = "tuition" => LinesPriced(L) /\ order[o].total = Total(L)
     /\ stage # "calculate" /\ kind = "salary" => Rounded(o)

\* Orders of the lessons passed; salaries as previewed until they are adjusted
BillInv ==
  /\ BillTyped
  /\ stage # "calculate" => todo = {}
  /\ stage = "calculate" \/ (stage = "adjust" /\ kind = "tuition") =>
       DOMAIN order = {source[s].owner : s \in SourceId \ todo}
  /\ stage = "adjust" /\ kind = "salary" =>
       \E revenue \in Revenue : [o \in DOMAIN order |-> order[o].total] = PreviewSalary(revenue)
  /\ \A o \in DOMAIN order : OrderInv(o)

-----------------------------------------------------------------------------
\* Lines and their total
LEMMA Lines ==
  ASSUME NEW L \in Seq(BillLine)
  PROVE  /\ DOMAIN L = 1..Len(L) /\ Len(L) \in Nat /\ IsFiniteSet(DOMAIN L)
         /\ \A i \in DOMAIN L : L[i] \in BillLine /\ L[i].total \in Int
         /\ Total(L) \in Int
<1>1. DOMAIN L = 1..Len(L) /\ Len(L) \in Nat
  OBVIOUS
<1>2. IsFiniteSet(DOMAIN L)
  BY <1>1, FS_Interval
<1>3. ASSUME NEW i \in DOMAIN L PROVE L[i] \in BillLine /\ L[i].total \in Int
  <2>1. L[i] \in BillLine
    OBVIOUS
  <2> QED
    BY <2>1 DEF BillLine
<1> DEFINE f == [i \in DOMAIN L |-> L[i].total]
<1>4. \A i \in DOMAIN L : f[i] \in Int
  BY <1>3
<1>5. Total(L) = Sum(DOMAIN L, f)
  BY DEF Total
<1> HIDE DEF f
<1>6. Sum(DOMAIN L, f) \in Int
  BY <1>2, <1>4, SumInt
<1> QED
  BY <1>1, <1>2, <1>3, <1>5, <1>6

\* Adding a line adds its total.
LEMMA TotalAppend ==
  ASSUME NEW L \in Seq(BillLine), NEW l \in BillLine
  PROVE  Total(Append(L, l)) = Total(L) + l.total
<1> DEFINE M == Append(L, l)
           n == Len(L)
           f == [i \in DOMAIN L |-> L[i].total]
           g == [i \in DOMAIN M |-> M[i].total]
<1>1. M \in Seq(BillLine) /\ n \in Nat /\ DOMAIN L = 1..n /\ DOMAIN M = 1..(n + 1)
  OBVIOUS
<1>2. g[n + 1] = l.total /\ \A i \in 1..n : g[i] = f[i]
  OBVIOUS
<1>3. IsFiniteSet(DOMAIN M) /\ IsFiniteSet(DOMAIN L) /\ Total(L) \in Int
  BY <1>1, Lines
<1>4. \A i \in DOMAIN M : g[i] \in Int
  BY <1>1, Lines
<1>5. Total(M) = Sum(DOMAIN M, g) /\ Total(L) = Sum(DOMAIN L, f)
  BY DEF Total
<1>6. n + 1 \in DOMAIN M /\ DOMAIN M \ {n + 1} = DOMAIN L
  BY <1>1
<1> DEFINE D == DOMAIN M \ {n + 1}
<1>7. D = DOMAIN L
  BY <1>6
<1> HIDE DEF M, f, g
<1>8. Sum(DOMAIN M, g) = g[n + 1] + Sum(D, g)
  BY <1>3, <1>4, <1>6, SumOne
<1>9. Sum(DOMAIN L, g) = Sum(DOMAIN L, f)
  BY <1>1, <1>2, <1>3, SumSame
<1> HIDE DEF D
<1>10. l.total \in Int
  BY DEF BillLine
<1>11. Total(M) = Total(L) + l.total
  BY <1>2, <1>3, <1>5, <1>7, <1>8, <1>9, <1>10
<1> QED
  BY <1>11 DEF M

\* Changing a line changes the total by as much.
LEMMA TotalChange ==
  ASSUME NEW L \in Seq(BillLine), NEW M \in Seq(BillLine), DOMAIN M = DOMAIN L,
         NEW i \in DOMAIN L, \A j \in DOMAIN L : j # i => M[j].total = L[j].total
  PROVE  Total(M) + L[i].total = Total(L) + M[i].total
<1> DEFINE f == [j \in DOMAIN L |-> L[j].total]
           g == [j \in DOMAIN M |-> M[j].total]
<1>1. \A j \in DOMAIN L : f[j] \in Int /\ g[j] \in Int /\ (j # i => f[j] = g[j])
  BY Lines
<1>2. IsFiniteSet(DOMAIN L)
  BY Lines
<1>3. Total(M) = Sum(DOMAIN L, g) /\ Total(L) = Sum(DOMAIN L, f)
  BY DEF Total
<1>4. f[i] = L[i].total /\ g[i] = M[i].total
  OBVIOUS
<1> HIDE DEF f, g
<1> DEFINE D == DOMAIN L
<1> HIDE DEF D
<1>5. Sum(D, g) + f[i] = Sum(D, f) + g[i]
  <2>1. IsFiniteSet(D) /\ i \in D
    BY <1>2 DEF D
  <2>2. /\ \A j \in D : f[j] \in Int
        /\ \A j \in D : g[j] \in Int
        /\ \A j \in D : j # i => f[j] = g[j]
    BY <1>1 DEF D
  <2> QED
    BY <2>1, <2>2, SumChange
<1> QED
  BY <1>3, <1>4, <1>5 DEF D

\* The total of lines of which only two cost something
LEMMA TotalFirstTwo ==
  ASSUME NEW L \in Seq(BillLine), Len(L) >= 2, \A i \in DOMAIN L : i > 2 => L[i].total = 0
  PROVE  Total(L) = L[1].total + L[2].total
<1> DEFINE f == [i \in DOMAIN L |-> L[i].total]
           D == DOMAIN L
           E == D \ {1}
           F == E \ {2}
<1>1. D = 1..Len(L) /\ Len(L) \in Nat /\ IsFiniteSet(D) /\ \A i \in D : f[i] \in Int
  BY Lines
<1>2. 1 \in D /\ 2 \in E /\ \A i \in F : f[i] = 0
  BY <1>1
<1>3. IsFiniteSet(E) /\ IsFiniteSet(F)
  BY <1>1, FS_RemoveElement
<1>4. \A i \in E : f[i] \in Int
  BY <1>1
<1>5. f[1] = L[1].total /\ f[2] = L[2].total /\ f[1] \in Int /\ f[2] \in Int
  BY <1>1, <1>2
<1>6. Total(L) = Sum(D, f)
  BY DEF Total
<1> HIDE DEF f, D
<1>7. Sum(D, f) = f[1] + Sum(E, f)
  BY <1>1, <1>2, SumOne
<1> HIDE DEF E
<1>8. Sum(E, f) = f[2] + Sum(F, f)
  BY <1>2, <1>3, <1>4, SumOne
<1> HIDE DEF F
<1>9. Sum(F, f) = 0
  BY <1>2, <1>3, SumZeros
<1> QED
  BY <1>5, <1>6, <1>7, <1>8, <1>9

\* Nine tenths, rounded
LEMMA NetRounds ==
  ASSUME NEW x \in Int
  PROVE  Net(x) \in Int /\ 9 * x - 4 <= 10 * Net(x) /\ 10 * Net(x) <= 9 * x + 5
BY DEF Net

\* A sum of rounded amounts is as far from the sum as it has amounts.
LEMMA NetSum ==
  ASSUME NEW S, IsFiniteSet(S), NEW f, NEW g,
         \A x \in S : f[x] \in Int /\ g[x] = Net(f[x])
  PROVE  /\ 9 * Sum(S, f) - 4 * Cardinality(S) <= 10 * Sum(S, g)
         /\ 10 * Sum(S, g) <= 9 * Sum(S, f) + 5 * Cardinality(S)
<1> DEFINE Good == {s \in SUBSET S : /\ 9 * Sum(s, f) - 4 * Cardinality(s) <= 10 * Sum(s, g)
                                    /\ 10 * Sum(s, g) <= 9 * Sum(s, f) + 5 * Cardinality(s)}
<1>1. ASSUME NEW s \in SUBSET S, \A t \in SUBSET s : t # s => t \in Good
      PROVE  s \in Good
  <2>1. IsFiniteSet(s)
    BY FS_Subset
  <2>2. CASE s = {}
    <3>1. Sum(s, f) = 0 /\ Sum(s, g) = 0 /\ Cardinality(s) = 0
      BY <2>1, <2>2, SumPick, FS_EmptySet
    <3> QED
      BY <3>1
  <2>3. CASE s # {}
    <3> DEFINE p == Pick(s)
               t == s \ {p}
    <3>1. /\ p \in s /\ Sum(s, f) = f[p] + Sum(t, f) /\ Sum(s, g) = g[p] + Sum(t, g)
          /\ Cardinality(s) \in Nat /\ Cardinality(t) = Cardinality(s) - 1 /\ IsFiniteSet(t)
      BY <2>1, <2>3, SumPick, PickOne
    <3>2. t \in Good
      BY <1>1, <3>1
    <3>3. /\ 9 * Sum(t, f) - 4 * Cardinality(t) <= 10 * Sum(t, g)
          /\ 10 * Sum(t, g) <= 9 * Sum(t, f) + 5 * Cardinality(t)
      BY <3>2
    <3>4. \A x \in t : f[x] \in Int /\ g[x] \in Int
      BY NetRounds
    <3> HIDE DEF t
    <3>5. Sum(t, f) \in Int /\ Sum(t, g) \in Int
      BY <3>1, <3>4, SumInt
    <3>6. f[p] \in Int /\ g[p] \in Int /\ 9 * f[p] - 4 <= 10 * g[p] /\ 10 * g[p] <= 9 * f[p] + 5
      BY <3>1, NetRounds
    <3> DEFINE a == Sum(t, f)
               b == Sum(t, g)
               c == Cardinality(s)
               x == f[p]
               y == g[p]
    <3>7. /\ a \in Int /\ b \in Int /\ c \in Int /\ x \in Int /\ y \in Int
          /\ 9 * a - 4 * (c - 1) <= 10 * b /\ 10 * b <= 9 * a + 5 * (c - 1)
          /\ 9 * x - 4 <= 10 * y /\ 10 * y <= 9 * x + 5
      BY <3>1, <3>3, <3>5, <3>6
    <3>8. Sum(s, f) = x + a /\ Sum(s, g) = y + b
      BY <3>1
    <3> HIDE DEF a, b, c, x, y, p
    <3>9. 9 * (x + a) - 4 * c <= 10 * (y + b) /\ 10 * (y + b) <= 9 * (x + a) + 5 * c
      BY <3>7
    <3>10. /\ 9 * Sum(s, f) - 4 * Cardinality(s) <= 10 * Sum(s, g)
           /\ 10 * Sum(s, g) <= 9 * Sum(s, f) + 5 * Cardinality(s)
      BY <3>8, <3>9 DEF c
    <3> QED
      BY <3>10
  <2> QED
    BY <2>2, <2>3
<1>2. S \in Good
  <2> HIDE DEF Good
  <2> QED
    BY <1>1, PartsInduction
<1> QED
  BY <1>2

\* The net of a total and the total of the net lines
LEMMA NetTotals ==
  ASSUME NEW L \in Seq(BillLine), NEW M \in Seq(BillLine), DOMAIN M = DOMAIN L,
         \A i \in DOMAIN L : M[i].total = Net(L[i].total)
  PROVE  LET off == 2 * (Net(Total(L)) - Total(M))
         IN -(Len(L) + 1) <= off /\ off <= Len(L) + 1
<1> DEFINE f == [i \in DOMAIN L |-> L[i].total]
           g == [i \in DOMAIN M |-> M[i].total]
           D == DOMAIN L
<1>1. IsFiniteSet(D) /\ D = 1..Len(L) /\ Len(L) \in Nat /\ Total(L) \in Int /\ Total(M) \in Int
  BY Lines
<1>2. \A i \in D : f[i] \in Int /\ g[i] = Net(f[i])
  BY Lines
<1>3. Total(M) = Sum(D, g) /\ Total(L) = Sum(D, f)
  BY DEF Total
<1>4. Cardinality(D) = Len(L)
  <2> DEFINE n == Len(L)
  <2>1. n \in Nat /\ D = 1..n
    BY <1>1
  <2> HIDE DEF n, D
  <2>2. Cardinality(1..n) = n
    BY <2>1, FS_Interval
  <2> QED
    BY <2>1, <2>2 DEF n
<1> HIDE DEF f, g, D
<1>5. 9 * Total(L) - 4 * Len(L) <= 10 * Total(M) /\ 10 * Total(M) <= 9 * Total(L) + 5 * Len(L)
  BY <1>1, <1>2, <1>3, <1>4, NetSum
<1> DEFINE t == Total(L)
           m == Total(M)
           n == Len(L)
           net == Net(t)
<1>6. /\ t \in Int /\ m \in Int /\ n \in Nat /\ net \in Int
      /\ 9 * t - 4 <= 10 * net /\ 10 * net <= 9 * t + 5
      /\ 9 * t - 4 * n <= 10 * m /\ 10 * m <= 9 * t + 5 * n
  BY <1>1, <1>5, NetRounds
<1> HIDE DEF t, m, n, net
<1>7. -(n + 1) <= 2 * (net - m) /\ 2 * (net - m) <= n + 1
  BY <1>6
<1> QED
  BY <1>7 DEF t, m, n, net

-----------------------------------------------------------------------------
\* The fields of a lesson
LEMMA Sources ==
  ASSUME BillTyped, NEW s \in SourceId
  PROVE  /\ source[s].owner \in Owner /\ source[s].class \in Class
         /\ source[s].role \in {"student", "teacher", "assistant"}
         /\ source[s].present \in BOOLEAN /\ Charge(s) \in Int
<1>1. source \in [SourceId -> [owner : Owner, class : Class, rate : Rate, role : Role[kind],
                present : IF kind = "tuition" THEN BOOLEAN ELSE {TRUE}]]
  BY DEF BillTyped, SourceTables
<1>2. /\ source[s].owner \in Owner /\ source[s].class \in Class
      /\ source[s].role \in Role[kind] /\ source[s].rate \in Int
      /\ source[s].present \in BOOLEAN
  BY <1>1, BillConstants
<1>3. Role[kind] \subseteq {"student", "teacher", "assistant"}
  BY DEF BillTyped, Role
<1> QED
  BY <1>2, <1>3 DEF Charge

\* A record of these fields is a line.
LEMMA LineFields ==
  ASSUME NEW ids \in SUBSET SourceId, NEW c \in Class \union {"commission", "base"},
         NEW r \in {"student", "teacher", "assistant", ""},
         NEW n \in Int, NEW rate \in Int, NEW total \in Int
  PROVE  [ids |-> ids, class |-> c, role |-> r, count |-> n, rate |-> rate, total |-> total] \in BillLine
BY DEF BillLine

\* The fields of a new line
LEMMA NewLineOf ==
  ASSUME BillTyped, NEW s \in SourceId
  PROVE  /\ NewLine(s) \in BillLine /\ NewLine(s).ids = {s} /\ NewLine(s).class = source[s].class
         /\ NewLine(s).count = 1 /\ NewLine(s).rate = Charge(s) /\ NewLine(s).total = Charge(s)
<1>1. /\ source[s].class \in Class /\ source[s].role \in {"student", "teacher", "assistant"}
      /\ Charge(s) \in Int
  BY Sources
<1> DEFINE only == {s}
           c == source[s].class
           r == source[s].role
           a == Charge(s)
           one == 1
<1>2. only \in SUBSET SourceId
  OBVIOUS
<1>3. NewLine(s) = [ids |-> only, class |-> c, role |-> r, count |-> one, rate |-> a, total |-> a]
  BY DEF NewLine
<1>4. c \in Class \union {"commission", "base"} /\ r \in {"student", "teacher", "assistant", ""}
  BY <1>1
<1>7. a \in Int /\ one \in Int
  BY <1>1
<1> HIDE DEF only, c, r, a, one
<1>5. [ids |-> only, class |-> c, role |-> r, count |-> one, rate |-> a, total |-> a] \in BillLine
  BY <1>2, <1>4, <1>7 DEF BillLine
<1>6. /\ NewLine(s).ids = only /\ NewLine(s).class = c
      /\ NewLine(s).count = one /\ NewLine(s).rate = a /\ NewLine(s).total = a
  BY <1>3
<1> QED
  BY <1>3, <1>5, <1>6 DEF only, c, a, one

\* A lesson goes to the line of its class, role and rate, or to a new one.
LEMMA LineAdded ==
  ASSUME BillTyped, NEW L \in Seq(BillLine), NEW s \in SourceId, NEW T \in SUBSET SourceId,
         s \notin T, Holds(L, T), L = <<>> \/ LinesPriced(L), \A i \in DOMAIN L : L[i].ids # {}
  PROVE  LET M == LinesWith(L, s)
         IN /\ M \in Seq(BillLine) /\ M # <<>> /\ Holds(M, T \union {s}) /\ LinesPriced(M)
            /\ \A i \in DOMAIN M : M[i].ids # {}
            /\ Total(M) = Total(L) + Charge(s)
<1> DEFINE at == {i \in DOMAIN L : SameLine(L[i], s)}
           M == LinesWith(L, s)
           Goal == /\ M \in Seq(BillLine) /\ M # <<>> /\ Holds(M, T \union {s}) /\ LinesPriced(M)
                   /\ \A i \in DOMAIN M : M[i].ids # {}
                   /\ Total(M) = Total(L) + Charge(s)
<1>1. DOMAIN L = 1..Len(L) /\ Len(L) \in Nat /\ Charge(s) \in Int /\ Total(L) \in Int
  BY Lines, Sources
<1>2. ASSUME at = {} PROVE Goal
  <2> DEFINE l == NewLine(s)
             n == Len(L)
  <2>1. M = Append(L, l)
    BY <1>2 DEF LinesWith
  <2>2. /\ l \in BillLine /\ l.ids = {s} /\ l.class = source[s].class
        /\ l.count = 1 /\ l.rate = Charge(s) /\ l.total = Charge(s)
    BY NewLineOf
  <2> HIDE DEF l, M
  <2>3. M \in Seq(BillLine) /\ M # <<>> /\ DOMAIN M = 1..(n + 1) /\ n \in Nat /\ DOMAIN L = 1..n
    BY <1>1, <2>1, <2>2
  <2>4. M[n + 1] = l /\ \A i \in 1..n : M[i] = L[i]
    BY <2>1, <2>2
  <2> HIDE DEF n
  <2>5. \A i \in DOMAIN M : i = n + 1 \/ i \in DOMAIN L
    BY <2>3
  <2>6. \A i \in DOMAIN L : i \in DOMAIN M /\ i # n + 1 /\ M[i] = L[i]
    BY <2>3, <2>4
  <2>7. n + 1 \in DOMAIN M
    BY <2>3
  <2>8. Holds(M, T \union {s})
    <3>1. \A i \in DOMAIN M : M[i].ids \in SUBSET (T \union {s}) /\ Cardinality(M[i].ids) = M[i].count
      <4>1. Cardinality({s}) = 1
        BY FS_Singleton
      <4> QED
        BY <2>2, <2>4, <2>5, <2>6, <4>1 DEF Holds
    <3>2. \A t \in T \union {s} : \E i \in DOMAIN M : t \in M[i].ids
      BY <2>2, <2>4, <2>6, <2>7 DEF Holds
    <3>3. \A i, j \in DOMAIN M : i # j => M[i].ids \cap M[j].ids = {}
      <4>1. \A i \in DOMAIN L : s \notin L[i].ids
        BY DEF Holds
      <4> QED
        BY <2>2, <2>4, <2>5, <2>6, <4>1 DEF Holds
    <3> QED
      BY <3>1, <3>2, <3>3 DEF Holds
  <2>9. \A i \in DOMAIN M : M[i].ids # {}
    BY <2>2, <2>4, <2>5, <2>6
  <2>10. LinesPriced(M)
    <3>1. ASSUME NEW i \in DOMAIN M
          PROVE  /\ M[i].total = M[i].count * M[i].rate
                 /\ \A t \in M[i].ids : M[i].class = source[t].class /\ M[i].rate = Charge(t)
      <4>1. CASE i = n + 1
        <5>1. l.total = l.count * l.rate
          BY <1>1, <2>2
        <5> QED
          BY <2>2, <2>4, <4>1, <5>1
      <4>2. CASE i \in DOMAIN L
        <5>1. L # <<>>
          BY <1>1, <4>2
        <5> QED
          BY <2>6, <4>2, <5>1 DEF LinesPriced
      <4> QED
        BY <2>5, <4>1, <4>2
    <3>2. 1 \in DOMAIN M
      BY <2>3
    <3> QED
      BY <2>9, <3>1, <3>2 DEF LinesPriced
  <2>11. Total(M) = Total(L) + Charge(s)
    BY <2>1, <2>2, TotalAppend
  <2> QED
    BY <2>3, <2>8, <2>9, <2>10, <2>11
<1>3. ASSUME at # {} PROVE Goal
  <2> DEFINE k == CHOOSE i \in at : \A j \in at : i <= j
             l == WithLesson(L[k], s)
  <2>1. k \in at
    <3>1. at \subseteq Nat
      BY <1>1
    <3> HIDE DEF at
    <3>2. \E i \in at : \A j \in at : i <= j
      BY <1>3, <3>1, Least
    <3> QED
      BY <3>2
  <2>2. k \in DOMAIN L /\ SameLine(L[k], s)
    BY <2>1
  <2>3. M = [L EXCEPT ![k] = l]
    <3>1. M = [L EXCEPT ![CHOOSE i \in at : \A j \in at : i <= j] = WithLesson(@, s)]
      BY <1>3, Zenon DEF LinesWith
    <3> DEFINE N == [L EXCEPT ![k] = WithLesson(@, s)]
    <3>2. M = N
      BY <3>1
    <3> HIDE DEF k, M
    <3>3. N = [L EXCEPT ![k] = l]
      BY <2>2
    <3> QED
      BY <3>2, <3>3
  <2>4. L[k] \in BillLine
    BY <2>2, Lines
  <2>5. /\ l \in BillLine /\ l.ids = L[k].ids \union {s} /\ l.class = L[k].class
        /\ l.count = L[k].count + 1 /\ l.rate = L[k].rate /\ l.total = L[k].total + Charge(s)
    <3>1. ASSUME NEW x \in BillLine, NEW y, y = WithLesson(x, s)
          PROVE  /\ y \in BillLine /\ y.ids = x.ids \union {s} /\ y.class = x.class
                 /\ y.count = x.count + 1 /\ y.rate = x.rate /\ y.total = x.total + Charge(s)
      <4>1. /\ x.count \in Int /\ x.total \in Int /\ x.rate \in Int /\ x.ids \in SUBSET SourceId
            /\ x.class \in Class \union {"commission", "base"}
            /\ x.role \in {"student", "teacher", "assistant", ""}
        BY DEF BillLine
      <4>2. x.count + 1 \in Int /\ x.total + Charge(s) \in Int /\ x.ids \union {s} \in SUBSET SourceId
        <5> DEFINE a == x.count
                   b == x.total
                   e == Charge(s)
        <5>1. a \in Int /\ b \in Int /\ e \in Int
          BY <1>1, <4>1
        <5> HIDE DEF a, b, e
        <5>2. a + 1 \in Int /\ b + e \in Int
          BY <5>1
        <5> QED
          BY <4>1, <5>2 DEF a, b, e
      <4>5. y = [ids |-> x.ids \union {s}, class |-> x.class, role |-> x.role,
                 count |-> x.count + 1, rate |-> x.rate, total |-> x.total + Charge(s)]
        BY <3>1 DEF BillLine, WithLesson
      <4>3. y \in BillLine
        BY <4>1, <4>2, <4>5, LineFields
      <4> QED
        BY <4>3, <4>5
    <3> HIDE DEF k
    <3> QED
      BY <2>4, <3>1
  <2> HIDE DEF l, M, k, at
  <2>6. M \in Seq(BillLine) /\ DOMAIN M = DOMAIN L
    BY <1>1, <2>2, <2>3, <2>5, ExceptSeq
  <2>7. M[k] = l /\ \A i \in DOMAIN L : i # k => M[i] = L[i]
    BY <2>2, <2>3
  <2>8. M # <<>>
    BY <2>2, <2>6
  <2>9. \A i \in DOMAIN M : M[i].ids # {}
    BY <2>2, <2>5, <2>6, <2>7
  <2>10. L # <<>> /\ LinesPriced(L)
    BY <1>1, <2>2
  <2>11. s \notin L[k].ids /\ \A i \in DOMAIN L : s \notin L[i].ids
    BY <2>2 DEF Holds
  <2>12. Holds(M, T \union {s})
    <3>1. Cardinality(l.ids) = l.count
      <4>1. IsFiniteSet(L[k].ids)
        BY <2>4, BillConstants, FS_Subset DEF BillLine
      <4>2. Cardinality(L[k].ids \union {s}) = Cardinality(L[k].ids) + 1
        BY <2>11, <4>1, FS_AddElement
      <4> QED
        BY <2>2, <2>5, <4>2 DEF Holds
    <3>2. \A i \in DOMAIN M : M[i].ids \in SUBSET (T \union {s}) /\ Cardinality(M[i].ids) = M[i].count
      BY <2>2, <2>5, <2>6, <2>7, <3>1 DEF Holds
    <3>3. \A t \in T \union {s} : \E i \in DOMAIN M : t \in M[i].ids
      <4>1. \A i \in DOMAIN L : L[i].ids \subseteq M[i].ids
        BY <2>5, <2>7
      <4>2. s \in M[k].ids /\ k \in DOMAIN M
        BY <2>2, <2>5, <2>6, <2>7
      <4> QED
        BY <2>6, <4>1, <4>2 DEF Holds
    <3>4. \A i, j \in DOMAIN M : i # j => M[i].ids \cap M[j].ids = {}
      <4>1. \A i \in DOMAIN M : i # k => M[i].ids = L[i].ids /\ s \notin M[i].ids
        BY <2>6, <2>7, <2>11
      <4>2. M[k].ids = L[k].ids \union {s}
        BY <2>5, <2>7
      <4> QED
        BY <2>2, <2>6, <4>1, <4>2 DEF Holds
    <3> QED
      BY <3>2, <3>3, <3>4 DEF Holds
  <2>13. LinesPriced(M)
    <3>1. ASSUME NEW i \in DOMAIN M
          PROVE  /\ M[i].total = M[i].count * M[i].rate
                 /\ \A t \in M[i].ids : M[i].class = source[t].class /\ M[i].rate = Charge(t)
      <4>1. CASE i = k
        <5>1. /\ L[k].class = source[s].class /\ L[k].rate = Charge(s)
              /\ L[k].total = L[k].count * L[k].rate
              /\ \A t \in L[k].ids : L[k].class = source[t].class /\ L[k].rate = Charge(t)
          BY <2>2, <2>10 DEF SameLine, LinesPriced
        <5>2. l.total = l.count * l.rate
          <6> DEFINE c == L[k].count
                     r == Charge(s)
          <6>1. c \in Int /\ r \in Int
            BY <1>1, <2>4 DEF BillLine
          <6>2. l.total = c * r + r /\ l.count = c + 1 /\ l.rate = r
            BY <2>5, <5>1
          <6> HIDE DEF c, r
          <6>3. (c + 1) * r = c * r + r
            BY <6>1
          <6> QED
            BY <6>2, <6>3
        <5> QED
          BY <2>5, <2>7, <4>1, <5>1, <5>2
      <4>2. CASE i # k
        BY <2>6, <2>7, <2>10, <4>2 DEF LinesPriced
      <4> QED
        BY <4>1, <4>2
    <3>2. 1 \in DOMAIN M
      BY <1>1, <2>2, <2>6
    <3> QED
      BY <2>9, <3>1, <3>2 DEF LinesPriced
  <2>14. Total(M) = Total(L) + Charge(s)
    <3>1. Total(M) + L[k].total = Total(L) + M[k].total
      BY <2>2, <2>6, <2>7, TotalChange
    <3>2. Total(M) \in Int /\ L[k].total \in Int
      BY <2>2, <2>6, Lines
    <3>3. M[k].total = L[k].total + Charge(s)
      BY <2>5, <2>7
    <3> QED
      BY <1>1, <3>1, <3>2, <3>3
  <2> QED
    BY <2>6, <2>8, <2>9, <2>12, <2>13, <2>14
<1> HIDE DEF Goal
<1>4. Goal
  BY <1>2, <1>3
<1> QED
  BY <1>4 DEF Goal

\* No lines hold no lessons.
LEMMA NoLines ==
  ASSUME NEW f
  PROVE  /\ <<>> \in Seq(BillLine) /\ Holds(<<>>, {}) /\ Total(<<>>) = 0 /\ Sum({}, f) = 0
         /\ \A i \in DOMAIN <<>> : <<>>[i].ids # {}
<1>1. <<>> \in Seq(BillLine) /\ DOMAIN <<>> = {}
  OBVIOUS
<1>2. \A g : Sum({}, g) = 0
  BY FS_EmptySet, SumPick
<1>3. Total(<<>>) = 0
  BY <1>1, <1>2 DEF Total
<1>4. Holds(<<>>, {})
  BY <1>1 DEF Holds
<1> QED
  BY <1>1, <1>2, <1>3, <1>4

\* The order the loop adds a lesson to
LEMMA OldOrder ==
  ASSUME BillInv, stage = "calculate", NEW o \in Owner
  PROVE  LET d == IF o \in DOMAIN order THEN order[o] ELSE NoOrder
         IN /\ d \in OrderRow /\ Holds(d.lines, Passed(o))
            /\ d.lines = <<>> \/ LinesPriced(d.lines)
            /\ \A i \in DOMAIN d.lines : d.lines[i].ids # {}
            /\ d.total = Total(d.lines) /\ d.total = Billed(o)
<1>1. CASE o \in DOMAIN order
  BY <1>1 DEF BillInv, BillTyped, OrderInv
<1>2. CASE o \notin DOMAIN order
  <2>1. Passed(o) = {}
    BY <1>2 DEF BillInv, Passed
  <2>2. NoOrder \in OrderRow
    BY NoLines DEF NoOrder, OrderRow
  <2>3. NoOrder.lines = <<>> /\ NoOrder.total = 0
    BY DEF NoOrder
  <2>4. Billed(o) = 0 /\ Total(<<>>) = 0 /\ Holds(<<>>, {}) /\ \A i \in DOMAIN <<>> : <<>>[i].ids # {}
    BY <2>1, NoLines DEF Billed
  <2> QED
    BY <1>2, <2>1, <2>2, <2>3, <2>4
<1> QED
  BY <1>1, <1>2

\* The loop bills a lesson.
LEMMA AddKeeps ==
  ASSUME BillInv, NEW s \in SourceId, AddSource(s)
  PROVE  BillInv'
<1> DEFINE o == source[s].owner
           old == IF o \in DOMAIN order THEN order[o] ELSE NoOrder
           L == old.lines
           M == LinesWith(L, s)
           new == [total |-> old.total + Charge(s),
                   sessions |-> old.sessions + (IF source[s].present THEN 1 ELSE 0), lines |-> M]
           T == Passed(o)
           f == [t \in SourceId |-> Charge(t)]
<1>1. /\ stage = "calculate" /\ s \in todo /\ todo' = todo \ {s}
      /\ order' = [x \in DOMAIN order \union {o} |-> IF x = o THEN new ELSE order[x]]
      /\ kind' = kind /\ source' = source /\ stage' = stage
  BY DEF AddSource
<1>2. BillTyped /\ o \in Owner /\ Charge(s) \in Int /\ source[s].present \in BOOLEAN /\ s \notin T
  BY <1>1, Sources DEF BillInv, Passed
<1>3. /\ old \in OrderRow /\ Holds(old.lines, T)
      /\ old.lines = <<>> \/ LinesPriced(old.lines)
      /\ \A i \in DOMAIN old.lines : old.lines[i].ids # {}
      /\ old.total = Total(old.lines) /\ old.total = Billed(o)
  BY <1>1, <1>2, OldOrder
<1>4. T \in SUBSET SourceId
  BY DEF Passed
<1> HIDE DEF old
<1>15. old.lines \in Seq(BillLine) /\ old.total \in Int /\ old.sessions \in Int
  <2>1. old \in OrderRow
    BY <1>3
  <2> QED
    BY <2>1 DEF OrderRow
<1>16. PICK K : K = M
  OBVIOUS
<1>5. /\ K \in Seq(BillLine) /\ K # <<>> /\ Holds(K, T \union {s}) /\ LinesPriced(K)
      /\ \A i \in DOMAIN K : K[i].ids # {}
      /\ Total(K) = Total(L) + Charge(s)
  <2>1. /\ L \in Seq(BillLine) /\ Holds(L, T)
        /\ L = <<>> \/ LinesPriced(L)
        /\ \A i \in DOMAIN L : L[i].ids # {}
    BY <1>3, <1>15
  <2>2. BillTyped /\ s \notin T
    BY <1>2
  <2> HIDE DEF T, L
  <2>3. LET N == LinesWith(L, s)
        IN /\ N \in Seq(BillLine) /\ N # <<>> /\ Holds(N, T \union {s}) /\ LinesPriced(N)
           /\ \A i \in DOMAIN N : N[i].ids # {}
           /\ Total(N) = Total(L) + Charge(s)
    BY <1>4, <2>1, <2>2, LineAdded
  <2> QED
    BY <1>16, <2>3
<1> HIDE DEF M
<1>6. new \in OrderRow /\ new.lines = K /\ new.total = Total(K)
  <2> DEFINE n == old.sessions + (IF source[s].present THEN 1 ELSE 0)
             a == old.total + Charge(s)
  <2>1. n \in Int
    BY <1>2, <1>15
  <2>2. a \in Int /\ a = Total(K)
    <3>1. old.total = Total(old.lines) /\ old.total \in Int /\ Charge(s) \in Int
      BY <1>2, <1>3, <1>15
    <3> QED
      BY <1>5, <3>1
  <2>3. new = [total |-> a, sessions |-> n, lines |-> K]
    BY <1>16
  <2> HIDE DEF n, a, new
  <2>4. [total |-> a, sessions |-> n, lines |-> K] \in OrderRow
    BY <1>5, <2>1, <2>2 DEF OrderRow
  <2> QED
    BY <2>2, <2>3, <2>4
<1>7. Passed(o)' = T \union {s} /\ \A x : x # o => Passed(x)' = Passed(x)
  BY <1>1 DEF Passed
<1>8. \A x : Charge(x)' = Charge(x)
  BY <1>1 DEF Charge
<1>9. \A x : Billed(x)' = Sum(Passed(x)', f)
  BY <1>8 DEF Billed
<1>10. new.total = Billed(o)'
  <2>1. IsFiniteSet(T \union {s}) /\ (T \union {s}) \ {s} = T
    BY <1>2, <1>4, BillConstants, FS_Subset
  <2>2. \A t \in T \union {s} : f[t] \in Int
    BY <1>2, <1>4, Sources
  <2> DEFINE U == T \union {s}
             R == U \ {s}
  <2>3. IsFiniteSet(U) /\ R = T /\ (\A t \in U : f[t] \in Int) /\ s \in U
    BY <2>1, <2>2
  <2>4. f[s] = Charge(s) /\ Billed(o)' = Sum(U, f) /\ old.total = Sum(T, f)
    BY <1>3, <1>7, <1>9 DEF Billed
  <2> HIDE DEF U, T, f
  <2>5. Sum(U, f) = f[s] + Sum(R, f)
    BY <2>3, SumOne
  <2>6. new.total = old.total + Charge(s)
    OBVIOUS
  <2> HIDE DEF R, new
  <2> QED
    BY <1>2, <1>15, <2>3, <2>4, <2>5, <2>6
<1> HIDE DEF new, f
<1>11. DOMAIN order' = DOMAIN order \union {o} /\ order'[o] = new
       /\ \A x \in DOMAIN order : x # o => order'[x] = order[x]
  BY <1>1
<1>12. BillTyped'
  <2>1. order' \in [DOMAIN order' -> OrderRow]
    BY <1>1, <1>6 DEF BillInv, BillTyped
  <2>2. (DOMAIN order)' \in SUBSET Owner /\ todo' \in SUBSET SourceId
    BY <1>1, <1>2, <1>11 DEF BillTyped
  <2>3. SourceTables(kind)' = SourceTables(kind)
    BY <1>1
  <2> QED
    BY <1>1, <1>2, <2>1, <2>2, <2>3 DEF BillTyped
<1>13. DOMAIN order' = {source'[t].owner : t \in SourceId \ todo'}
  <2>1. DOMAIN order = {source[t].owner : t \in SourceId \ todo}
    BY <1>1 DEF BillInv
  <2> QED
    BY <1>1, <1>11, <2>1
<1>14. ASSUME NEW x \in DOMAIN order' PROVE OrderInv(x)'
  <2>1. CASE x = o
    <3>1. order'[x].lines = K /\ order'[x].total = Total(K) /\ order'[x].total = Billed(o)'
      BY <1>6, <1>10, <1>11, <2>1
    <3>2. LinesPriced(K)'
      BY <1>1, <1>5, <1>8 DEF LinesPriced
    <3>3. LinesPriced(order[x].lines)'
      BY <3>1, <3>2 DEF LinesPriced
    <3>4. Passed(x)' = T \union {s}
      BY <1>1, <2>1 DEF Passed
    <3>5. Holds(K, T \union {s})
      BY <1>5
    <3> QED
      <4>1. Holds(order[x].lines, Passed(x))'
        BY <3>1, <3>4, <3>5 DEF Holds
      <4>2. Total(order[x].lines)' = Total(K)
        BY <3>1 DEF Total
      <4>3. K # <<>> /\ \A i \in DOMAIN K : K[i].ids # {}
        BY <1>5
      <4> QED
        BY <1>1, <2>1, <3>1, <3>3, <4>1, <4>2, <4>3 DEF OrderInv
  <2>2. CASE x # o
    <3>1. x \in DOMAIN order /\ order'[x] = order[x] /\ OrderInv(x)
      BY <1>11, <2>2 DEF BillInv
    <3>2. Passed(x)' = Passed(x) /\ Billed(x)' = Billed(x)
      BY <1>7, <1>9, <2>2 DEF Billed, f
    <3>3. LinesPriced(order[x].lines) => LinesPriced(order[x].lines)'
      BY <1>1, <1>8, <3>1 DEF LinesPriced
    <3> QED
      BY <1>1, <3>1, <3>2, <3>3 DEF OrderInv, Holds, Total, LinesPriced
  <2> QED
    BY <2>1, <2>2
<1> QED
  BY <1>1, <1>12, <1>13, <1>14 DEF BillInv

-----------------------------------------------------------------------------
\* Lines keep the lessons they hold when their amounts are changed.
LEMMA SameLessons ==
  ASSUME NEW L, NEW M, NEW T, DOMAIN M = DOMAIN L, Holds(L, T),
         \A i \in DOMAIN L : M[i].ids = L[i].ids /\ M[i].count = L[i].count
  PROVE  Holds(M, T)
BY DEF Holds

\* Net wages
LEMMA NetWages ==
  ASSUME NEW d \in OrderRow, NEW T, Holds(d.lines, T), d.lines # <<>>, d.total = Total(d.lines)
  PROVE  LET n == NetOrder(d)
         IN /\ n \in OrderRow /\ n.lines # <<>> /\ Holds(n.lines, T) /\ n.total = Net(d.total)
            /\ LET off == 2 * (n.total - Total(n.lines))
               IN -(Len(n.lines) + 1) <= off /\ off <= Len(n.lines) + 1
<1> DEFINE L == d.lines
           M == [i \in DOMAIN L |-> [L[i] EXCEPT !.rate = Net(@), !.total = Net(@)]]
           n == NetOrder(d)
<1>1. L \in Seq(BillLine) /\ d.total \in Int /\ d.sessions \in Int
  BY DEF OrderRow
<1>2. DOMAIN L = 1..Len(L) /\ Len(L) \in Nat /\ \A i \in DOMAIN L : L[i] \in BillLine
  BY <1>1, Lines
<1>3. ASSUME NEW i \in DOMAIN L
      PROVE  /\ M[i] \in BillLine /\ M[i].ids = L[i].ids /\ M[i].count = L[i].count
             /\ M[i].total = Net(L[i].total)
  <2>1. ASSUME NEW x \in BillLine, NEW y, y = [x EXCEPT !.rate = Net(@), !.total = Net(@)]
        PROVE  y \in BillLine /\ y.ids = x.ids /\ y.count = x.count /\ y.total = Net(x.total)
    <3>1. /\ x.count \in Int /\ x.total \in Int /\ x.rate \in Int /\ x.ids \in SUBSET SourceId
          /\ x.class \in Class \union {"commission", "base"}
          /\ x.role \in {"student", "teacher", "assistant", ""}
      BY DEF BillLine
    <3>2. Net(x.rate) \in Int /\ Net(x.total) \in Int
      BY <3>1, NetRounds
    <3>3. y = [ids |-> x.ids, class |-> x.class, role |-> x.role,
               count |-> x.count, rate |-> Net(x.rate), total |-> Net(x.total)]
      BY <2>1 DEF BillLine
    <3>4. y \in BillLine
      BY <3>1, <3>2, <3>3, LineFields
    <3> QED
      BY <3>3, <3>4
  <2> QED
    BY <1>2, <2>1
<1>4. DOMAIN M = DOMAIN L
  OBVIOUS
<1>5. n.lines = M /\ n.total = Net(d.total) /\ n = [total |-> Net(d.total), sessions |-> d.sessions, lines |-> M]
  BY DEF NetOrder
<1>6. M \in Seq(BillLine)
  <2> DEFINE k == Len(L)
  <2>1. k \in Nat /\ DOMAIN L = 1..k
    BY <1>2
  <2>2. M \in [1..k -> BillLine]
    BY <1>3, <2>1
  <2> HIDE DEF M, k
  <2> QED
    BY <2>1, <2>2, SeqDef
<1> HIDE DEF M, n
<1>7. n.total \in Int
  BY <1>1, <1>5, NetRounds
<1>8. n \in OrderRow
  <2> DEFINE t == Net(d.total)
  <2>1. t \in Int /\ n = [total |-> t, sessions |-> d.sessions, lines |-> M]
    BY <1>5, <1>7
  <2> HIDE DEF t
  <2> QED
    BY <1>1, <1>6, <2>1 DEF OrderRow
<1>9. n.lines # <<>> /\ Len(n.lines) = Len(L)
  BY <1>1, <1>4, <1>5, <1>6
<1>10. Holds(n.lines, T)
  <2>1. \A i \in DOMAIN L : M[i].ids = L[i].ids /\ M[i].count = L[i].count
    BY <1>3
  <2> HIDE DEF L
  <2>2. Holds(L, T)
    BY DEF L
  <2> QED
    BY <1>4, <1>5, <2>1, <2>2, SameLessons
<1>11. LET off == 2 * (Net(Total(L)) - Total(M))
       IN -(Len(L) + 1) <= off /\ off <= Len(L) + 1
  <2>1. \A i \in DOMAIN L : M[i].total = Net(L[i].total)
    BY <1>3
  <2> HIDE DEF L
  <2> QED
    BY <1>1, <1>4, <1>6, <2>1, NetTotals
<1>12. LET off == 2 * (n.total - Total(n.lines))
       IN -(Len(n.lines) + 1) <= off /\ off <= Len(n.lines) + 1
  <2>1. n.total = Net(Total(L)) /\ Total(n.lines) = Total(M) /\ Len(n.lines) = Len(L)
    BY <1>5, <1>9
  <2> QED
    BY <1>11, <2>1
<1> QED
  BY <1>5, <1>8, <1>9, <1>10, <1>12 DEF n

\* A line that pays for no lesson
LEMMA PayLines ==
  ASSUME NEW what \in Class \union {"commission", "base"}, NEW amount \in Int
  PROVE  /\ PayLine(what, amount) \in BillLine
         /\ PayLine(what, amount).ids = {} /\ PayLine(what, amount).count = 0
         /\ PayLine(what, amount).class = what /\ PayLine(what, amount).total = amount
<1> DEFINE none == {}
           nil == 0
<1>1. PayLine(what, amount) =
        [ids |-> none, class |-> what, role |-> "", count |-> nil, rate |-> amount, total |-> amount]
  BY DEF PayLine
<1>2. none \in SUBSET SourceId
  OBVIOUS
<1>3. nil \in Int
  OBVIOUS
<1> HIDE DEF none, nil
<1>4. PayLine(what, amount) \in BillLine
  BY <1>1, <1>2, <1>3, LineFields
<1> DEFINE l == PayLine(what, amount)
<1>6. l = [ids |-> none, class |-> what, role |-> "", count |-> nil, rate |-> amount, total |-> amount]
  BY <1>1
<1> HIDE DEF l
<1>5. l.ids = none /\ l.count = nil /\ l.class = what /\ l.total = amount
  BY <1>6
<1> QED
  BY <1>4, <1>5 DEF none, nil, l

\* Nine tenths of base salary and commission are the base salary and nine tenths
\* of the commission.
LEMMA NetCommission ==
  ASSUME NEW revenue \in Int
  PROVE  /\ Commission(revenue) \in Int /\ Net(Commission(revenue)) \in Int /\ NetBase \in Int
         /\ Net(BaseSalary + Commission(revenue)) = NetBase + Net(Commission(revenue))
<1>1. Commission(revenue) \in Int
  BY SMT DEF Commission
<1>2. BaseSalary \in Int /\ NetBase \in Int /\ 9 * BaseSalary = 10 * NetBase
  BY SMT DEF BaseSalary, NetBase
<1> DEFINE c == Commission(revenue)
           base == BaseSalary
           left == NetBase
<1>3. c \in Int /\ base \in Int /\ left \in Int /\ 9 * base = 10 * left
  BY <1>1, <1>2
<1> HIDE DEF c, base, left
<1>4. Net(c) \in Int /\ Net(base + c) = left + Net(c)
  BY <1>3 DEF Net
<1> QED
  BY <1>3, <1>4 DEF c, base, left

\* The pay of a teacher on commission
LEMMA CommissionPay ==
  ASSUME NEW d \in OrderRow, NEW T, Holds(d.lines, T), NEW revenue \in Revenue
  PROVE  LET n == CommissionOrder(d, revenue)
         IN /\ n \in OrderRow /\ n.lines # <<>> /\ Holds(n.lines, T)
            /\ n.total = Net(BaseSalary + Commission(revenue)) /\ n.total = Total(n.lines)
<1> DEFINE L == d.lines
           Z == [i \in DOMAIN L |-> [L[i] EXCEPT !.rate = 0, !.total = 0]]
           b == PayLine("base", NetBase)
           c == CommissionLine(revenue)
           M == <<b, c>> \o Z
           n == CommissionOrder(d, revenue)
           k == Len(L)
<1>1. L \in Seq(BillLine) /\ d.total \in Int /\ d.sessions \in Int
  BY DEF OrderRow
<1>2. DOMAIN L = 1..k /\ k \in Nat /\ \A i \in DOMAIN L : L[i] \in BillLine
  BY <1>1, Lines
<1>3. ASSUME NEW i \in DOMAIN L
      PROVE  Z[i] \in BillLine /\ Z[i].ids = L[i].ids /\ Z[i].count = L[i].count /\ Z[i].total = 0
  <2>1. ASSUME NEW x \in BillLine, NEW y, y = [x EXCEPT !.rate = 0, !.total = 0]
        PROVE  y \in BillLine /\ y.ids = x.ids /\ y.count = x.count /\ y.total = 0
    <3> DEFINE nil == 0
    <3>1. /\ x.count \in Int /\ x.ids \in SUBSET SourceId
          /\ x.class \in Class \union {"commission", "base"}
          /\ x.role \in {"student", "teacher", "assistant", ""}
      BY DEF BillLine
    <3>2. nil \in Int
      OBVIOUS
    <3>3. y = [ids |-> x.ids, class |-> x.class, role |-> x.role,
               count |-> x.count, rate |-> nil, total |-> nil]
      BY <2>1 DEF BillLine
    <3> HIDE DEF nil
    <3>4. y \in BillLine
      BY <3>1, <3>2, <3>3, LineFields
    <3> QED
      BY <3>3, <3>4 DEF nil
  <2> QED
    BY <1>2, <2>1
<1>4. Z \in Seq(BillLine) /\ Len(Z) = k
  <2>1. k \in Nat /\ DOMAIN L = 1..k
    BY <1>2
  <2>2. Z \in [1..k -> BillLine]
    BY <1>3, <2>1
  <2> HIDE DEF Z, k
  <2>3. Z \in Seq(BillLine)
    BY <2>1, <2>2, SeqDef
  <2> QED
    BY <2>1, <2>2, <2>3
<1>5. Revenue \subseteq Int /\ revenue \in Int
  BY BillConstants
<1>6. b \in BillLine /\ b.ids = {} /\ b.count = 0 /\ b.total = NetBase
  <2>1. "base" \in Class \union {"commission", "base"}
    OBVIOUS
  <2>2. NetBase \in Int
    BY <1>5, NetCommission
  <2> QED
    BY <2>1, <2>2, PayLines
<1>7. c \in BillLine /\ c.ids = {} /\ c.count = 0 /\ c.total = Net(Commission(revenue))
  <2>1. "commission" \in Class \union {"commission", "base"}
    OBVIOUS
  <2>2. Net(Commission(revenue)) \in Int
    BY <1>5, NetCommission
  <2> QED
    BY <2>1, <2>2, PayLines DEF CommissionLine
<1>8. n.lines = M /\ n = [total |-> Net(BaseSalary + Commission(revenue)), sessions |-> d.sessions, lines |-> M]
  BY DEF CommissionOrder
<1> HIDE DEF Z, b, c, k
<1>9. /\ M \in Seq(BillLine) /\ Len(M) = k + 2 /\ DOMAIN M = 1..(k + 2) /\ M[1] = b /\ M[2] = c
      /\ \A i \in 1..k : M[i + 2] = Z[i]
  <2> DEFINE two == <<b, c>>
  <2>1. two \in Seq(BillLine) /\ Len(two) = 2 /\ two[1] = b /\ two[2] = c
    BY <1>6, <1>7
  <2>3. M = two \o Z
    OBVIOUS
  <2> HIDE DEF two, M
  <2>2. /\ M \in Seq(BillLine) /\ Len(M) = Len(two) + Len(Z)
        /\ \A i \in 1..(Len(two) + Len(Z)) : M[i] = IF i <= Len(two) THEN two[i] ELSE Z[i - Len(two)]
    BY <1>4, <2>1, <2>3, ConcatProperties
  <2>4. M \in Seq(BillLine) /\ Len(M) = 2 + k
    BY <1>4, <2>1, <2>2
  <2>5. \A i \in 1..(2 + k) : M[i] = IF i <= 2 THEN two[i] ELSE Z[i - 2]
    BY <1>4, <2>1, <2>2
  <2>6. M[1] = b /\ M[2] = c
    BY <1>2, <2>1, <2>5
  <2>7. \A i \in 1..k : M[i + 2] = Z[i]
    <3> TAKE i \in 1..k
    <3>1. i + 2 \in 1..(2 + k) /\ ~(i + 2 <= 2) /\ (i + 2) - 2 = i
      BY <1>2
    <3>2. M[i + 2] = Z[(i + 2) - 2]
      BY <2>5, <3>1
    <3> QED
      BY <3>1, <3>2
  <2> QED
    BY <1>2, <2>4, <2>6, <2>7
<1> HIDE DEF M, n
<1>10. \A i \in DOMAIN M : i = 1 \/ i = 2 \/ \E j \in DOMAIN L : i = j + 2 /\ M[i] = Z[j]
  <2> SUFFICES ASSUME NEW i \in DOMAIN M, i # 1, i # 2
               PROVE  \E j \in DOMAIN L : i = j + 2 /\ M[i] = Z[j]
    OBVIOUS
  <2>1. i - 2 \in 1..k /\ i = (i - 2) + 2
    BY <1>2, <1>9
  <2> QED
    BY <1>2, <1>9, <2>1
<1>11. Holds(M, T)
  <2>1. \A j \in DOMAIN L : Z[j].ids = L[j].ids /\ Z[j].count = L[j].count
    BY <1>3
  <2>2. \A j \in DOMAIN L : j + 2 \in DOMAIN M /\ M[j + 2] = Z[j]
    BY <1>2, <1>9
  <2>3. Holds(L, T)
    OBVIOUS
  <2> HIDE DEF L
  <2>4. ASSUME NEW i \in DOMAIN M
        PROVE  M[i].ids \in SUBSET T /\ Cardinality(M[i].ids) = M[i].count
    <3>1. CASE i = 1 \/ i = 2
      <4>1. M[i].ids = {} /\ M[i].count = 0
        BY <1>6, <1>7, <1>9, <3>1
      <4> QED
        BY <4>1, FS_EmptySet
    <3>2. CASE \E j \in DOMAIN L : i = j + 2 /\ M[i] = Z[j]
      BY <2>1, <2>3, <3>2 DEF Holds
    <3> QED
      BY <1>10, <3>1, <3>2
  <2>5. \A s \in T : \E i \in DOMAIN M : s \in M[i].ids
    <3> TAKE s \in T
    <3>1. PICK j \in DOMAIN L : s \in L[j].ids
      BY <2>3 DEF Holds
    <3>2. s \in M[j + 2].ids
      BY <2>1, <2>2, <3>1
    <3> QED
      BY <2>2, <3>2
  <2>6. ASSUME NEW i \in DOMAIN M, NEW j \in DOMAIN M, i # j
        PROVE  M[i].ids \cap M[j].ids = {}
    <3>1. CASE M[i].ids = {} \/ M[j].ids = {}
      BY <3>1
    <3>2. CASE /\ \E x \in DOMAIN L : i = x + 2 /\ M[i] = Z[x]
               /\ \E y \in DOMAIN L : j = y + 2 /\ M[j] = Z[y]
      <4>1. PICK x \in DOMAIN L, y \in DOMAIN L : i = x + 2 /\ j = y + 2 /\ M[i] = Z[x] /\ M[j] = Z[y]
        BY <3>2
      <4>2. x # y
        BY <2>6, <4>1
      <4> QED
        BY <2>1, <2>3, <4>1, <4>2 DEF Holds
    <3>3. (i = 1 \/ i = 2 => M[i].ids = {}) /\ (j = 1 \/ j = 2 => M[j].ids = {})
      BY <1>6, <1>7, <1>9
    <3> QED
      BY <1>10, <3>1, <3>2, <3>3
  <2> QED
    BY <2>4, <2>5, <2>6 DEF Holds
<1>12. Total(M) = b.total + c.total
  <2>1. \A i \in DOMAIN M : i > 2 => M[i].total = 0
    BY <1>3, <1>10
  <2>2. Len(M) >= 2
    BY <1>2, <1>9
  <2> QED
    BY <1>9, <2>1, <2>2, TotalFirstTwo
<1>13. n.total = Net(BaseSalary + Commission(revenue)) /\ n.total = Total(M) /\ n.total \in Int
  BY <1>5, <1>6, <1>7, <1>8, <1>12, NetCommission
<1>14. n \in OrderRow
  BY <1>1, <1>8, <1>9, <1>13 DEF OrderRow
<1>15. M # <<>>
  BY <1>2, <1>9
<1> QED
  BY <1>8, <1>11, <1>13, <1>14, <1>15 DEF n
-----------------------------------------------------------------------------
\* When every lesson has been passed, the preview sums what the loop has.
LEMMA AllPassed ==
  ASSUME todo = {}
  PROVE  /\ OwnersBilled = {source[s].owner : s \in SourceId \ todo}
         /\ \A o : OrderCharge(o) = Billed(o)
<1>1. \A o : Passed(o) = {s \in SourceId : source[s].owner = o}
  BY DEF Passed
<1> QED
  BY <1>1 DEF OwnersBilled, OrderCharge, Billed

\* An order of the period's owner is settled.
LEMMA OrderSettled ==
  ASSUME BillInv, NEW revenue \in Revenue, Settle(revenue), kind = "salary",
         NEW o \in DOMAIN order \union CommissionOwner
  PROVE  /\ order'[o] \in OrderRow /\ OrderInv(o)'
         /\ order'[o].total = IF o \in CommissionOwner THEN Net(BaseSalary + Commission(revenue))
                              ELSE Net(OrderCharge(o))
<1> DEFINE d == IF o \in DOMAIN order THEN order[o] ELSE NoOrder
           T == Passed(o)
           new == order'[o]
<1>1. /\ stage = "calculate" /\ todo = {} /\ stage' = "adjust"
      /\ kind' = kind /\ source' = source /\ todo' = todo
      /\ new = IF o \notin CommissionOwner THEN NetOrder(order[o]) ELSE CommissionOrder(d, revenue)
  BY DEF Settle
<1>2. o \in Owner
  BY BillConstants DEF BillInv, BillTyped
<1>3. /\ d \in OrderRow /\ Holds(d.lines, T)
      /\ d.lines = <<>> \/ LinesPriced(d.lines)
      /\ d.total = Total(d.lines) /\ d.total = Billed(o)
  BY <1>1, <1>2, OldOrder
<1>4. OrderCharge(o) = Billed(o)
  BY <1>1, AllPassed
<1>5. T' = T
  BY <1>1 DEF Passed
<1>9. o \notin CommissionOwner => o \in DOMAIN order /\ d = order[o] /\ d.lines # <<>>
  BY DEF BillInv, OrderInv
<1> HIDE DEF d, T
<1>6. /\ new \in OrderRow /\ new.lines # <<>> /\ Holds(new.lines, T)
      /\ new.total = IF o \in CommissionOwner THEN Net(BaseSalary + Commission(revenue))
                     ELSE Net(OrderCharge(o))
      /\ LET off == 2 * (new.total - Total(new.lines))
             most == IF o \in CommissionOwner THEN 0 ELSE Len(new.lines) + 1
         IN -most <= off /\ off <= most
  <2>1. CASE o \notin CommissionOwner
    <3>1. d.lines # <<>> /\ new = NetOrder(d)
      BY <1>1, <1>9, <2>1
    <3>2. d \in OrderRow /\ Holds(d.lines, T) /\ d.lines # <<>> /\ d.total = Total(d.lines)
      BY <1>3, <3>1
    <3>3. LET n == NetOrder(d)
          IN /\ n \in OrderRow /\ n.lines # <<>> /\ Holds(n.lines, T) /\ n.total = Net(d.total)
             /\ LET off == 2 * (n.total - Total(n.lines))
                IN -(Len(n.lines) + 1) <= off /\ off <= Len(n.lines) + 1
      BY <3>2, NetWages
    <3> HIDE DEF new
    <3>4. /\ new \in OrderRow /\ new.lines # <<>> /\ Holds(new.lines, T) /\ new.total = Net(d.total)
          /\ LET off == 2 * (new.total - Total(new.lines))
             IN -(Len(new.lines) + 1) <= off /\ off <= Len(new.lines) + 1
      BY <3>1, <3>3
    <3>5. d.total = OrderCharge(o)
      BY <1>3, <1>4
    <3> QED
      BY <2>1, <3>4, <3>5
  <2>2. CASE o \in CommissionOwner
    <3>1. new = CommissionOrder(d, revenue)
      BY <1>1, <2>2
    <3>2. d \in OrderRow /\ Holds(d.lines, T)
      BY <1>3
    <3>3. LET n == CommissionOrder(d, revenue)
          IN /\ n \in OrderRow /\ n.lines # <<>> /\ Holds(n.lines, T)
             /\ n.total = Net(BaseSalary + Commission(revenue)) /\ n.total = Total(n.lines)
      BY <3>2, CommissionPay
    <3> HIDE DEF new
    <3>4. /\ new \in OrderRow /\ new.lines # <<>> /\ Holds(new.lines, T)
          /\ new.total = Net(BaseSalary + Commission(revenue)) /\ new.total = Total(new.lines)
      BY <3>1, <3>3
    <3>5. new.total \in Int
      BY <3>4 DEF OrderRow
    <3>6. 2 * (new.total - Total(new.lines)) = 0
      BY <3>4, <3>5
    <3> QED
      BY <2>2, <3>4, <3>6
  <2> QED
    BY <2>1, <2>2
<1>7. Holds(order[o].lines, Passed(o))' /\ Rounded(o)'
  <2>1. Holds(order[o].lines, Passed(o))'
    BY <1>5, <1>6 DEF T, Holds
  <2>2. Rounded(o)'
    BY <1>6 DEF Rounded, Total
  <2> QED
    BY <2>1, <2>2
<1>8. OrderInv(o)'
  BY <1>1, <1>6, <1>7 DEF OrderInv
<1> QED
  BY <1>6, <1>8

\* The calculated orders become those of the period.
LEMMA SettleKeeps ==
  ASSUME BillInv, NEW revenue \in Revenue, Settle(revenue)
  PROVE  BillInv'
<1>1. /\ stage = "calculate" /\ todo = {} /\ stage' = "adjust"
      /\ kind' = kind /\ source' = source /\ todo' = todo
  BY DEF Settle
<1>2. BillTyped /\ SourceTables(kind)' = SourceTables(kind)
  BY <1>1 DEF BillInv
<1>3. CASE kind = "tuition"
  <2>1. order' = order
    BY <1>3 DEF Settle
  <2>2. BillTyped'
    BY <1>1, <1>2, <2>1 DEF BillTyped
  <2>3. DOMAIN order = {source[s].owner : s \in SourceId \ todo}
    BY <1>1 DEF BillInv
  <2>4. ASSUME NEW o \in DOMAIN order PROVE OrderInv(o)'
    <3>1. OrderInv(o)
      BY DEF BillInv
    <3>2. Passed(o)' = Passed(o) /\ Billed(o)' = Billed(o)
      BY <1>1 DEF Passed, Billed, Charge
    <3>3. LinesPriced(order[o].lines)' <=> LinesPriced(order[o].lines)
      BY <1>1, <2>1 DEF LinesPriced, Charge
    <3> QED
      BY <1>1, <1>3, <2>1, <3>1, <3>2, <3>3 DEF OrderInv, Holds, Total
  <2> QED
    BY <1>1, <1>3, <2>1, <2>2, <2>3, <2>4 DEF BillInv
<1>4. CASE kind = "salary"
  <2> DEFINE D == DOMAIN order \union CommissionOwner
             pay(o) == IF o \notin CommissionOwner THEN NetOrder(order[o])
                       ELSE CommissionOrder(IF o \in DOMAIN order THEN order[o] ELSE NoOrder, revenue)
  <2>1. order' = [o \in D |-> pay(o)]
    BY <1>4 DEF Settle
  <2> HIDE DEF pay
  <2>2. DOMAIN order' = D
    BY <2>1
  <2>3. \A o \in D : /\ order'[o] \in OrderRow /\ OrderInv(o)'
                     /\ order'[o].total = IF o \in CommissionOwner
                                          THEN Net(BaseSalary + Commission(revenue))
                                          ELSE Net(OrderCharge(o))
    BY <1>4, OrderSettled
  <2>4. D \in SUBSET Owner
    BY <1>2, BillConstants DEF BillTyped
  <2>5. order' \in [D -> OrderRow]
    BY <2>1, <2>3
  <2> HIDE DEF D
  <2>6. BillTyped'
    <3>1. (order \in [DOMAIN order -> OrderRow])' /\ (DOMAIN order \in SUBSET Owner)'
      BY <2>2, <2>4, <2>5
    <3> QED
      BY <1>1, <1>2, <3>1 DEF BillTyped
  <2>7. D = OwnersBilled \union CommissionOwner
    BY <1>1, AllPassed DEF D, BillInv
  <2>8. [o \in DOMAIN order' |-> order'[o].total] = PreviewSalary(revenue)
    BY <2>2, <2>3, <2>7 DEF PreviewSalary
  <2>9. PreviewSalary(revenue)' = PreviewSalary(revenue)
    BY <1>1 DEF PreviewSalary, OwnersBilled, OrderCharge, Charge
  <2>10. (\E r \in Revenue : [o \in DOMAIN order |-> order[o].total] = PreviewSalary(r))'
    BY <2>8, <2>9
  <2> QED
    BY <1>1, <1>4, <2>2, <2>3, <2>6, <2>10 DEF BillInv
<1> QED
  BY <1>2, <1>3, <1>4 DEF BillTyped
-----------------------------------------------------------------------------
\* A line for no lesson is added.
LEMMA LineAppended ==
  ASSUME NEW L \in Seq(BillLine), L # <<>>, NEW T, Holds(L, T),
         NEW l \in BillLine, l.ids = {}, l.count = 0
  PROVE  LET M == Append(L, l)
         IN /\ M \in Seq(BillLine) /\ M # <<>> /\ Len(M) = Len(L) + 1 /\ Holds(M, T)
            /\ Total(M) = Total(L) + l.total
            /\ LinesPriced(L) /\ l.class = L[1].class => LinesPriced(M)
<1> DEFINE M == Append(L, l)
           n == Len(L)
<1>1. /\ M \in Seq(BillLine) /\ M # <<>> /\ Len(M) = n + 1 /\ DOMAIN M = 1..(n + 1)
      /\ n \in Nat /\ DOMAIN L = 1..n /\ n # 0
  OBVIOUS
<1>2. M[n + 1] = l /\ \A i \in 1..n : M[i] = L[i]
  OBVIOUS
<1>3. Total(M) = Total(L) + l.total
  BY TotalAppend
<1> HIDE DEF M, n
<1>4. /\ \A i \in DOMAIN M : M[i] = l \/ (i \in DOMAIN L /\ M[i] = L[i])
      /\ \A i \in DOMAIN L : i \in DOMAIN M /\ M[i] = L[i]
      /\ 1 \in DOMAIN L /\ M[1] = L[1]
  <2>1. \A i \in 1..(n + 1) : i = n + 1 \/ i \in 1..n
    BY <1>1
  <2>2. 1 \in 1..n /\ \A i \in 1..n : i \in 1..(n + 1)
    BY <1>1
  <2> QED
    BY <1>1, <1>2, <2>1, <2>2
<1>5. Holds(M, T)
  <2>1. Cardinality({}) = 0
    BY FS_EmptySet
  <2>2. \A i \in DOMAIN M : M[i].ids \in SUBSET T /\ Cardinality(M[i].ids) = M[i].count
    BY <1>4, <2>1 DEF Holds
  <2>3. \A s \in T : \E i \in DOMAIN M : s \in M[i].ids
    BY <1>4 DEF Holds
  <2>4. ASSUME NEW i \in DOMAIN M, NEW j \in DOMAIN M, i # j PROVE M[i].ids \cap M[j].ids = {}
    BY <1>4, <2>4 DEF Holds
  <2> QED
    BY <2>2, <2>3, <2>4 DEF Holds
<1>6. ASSUME LinesPriced(L), l.class = L[1].class PROVE LinesPriced(M)
  BY <1>4, <1>6 DEF LinesPriced
<1> QED
  BY <1>1, <1>3, <1>5, <1>6 DEF M, n

\* Staff set the total of an order, or leave it.
LEMMA OrderAdjusted ==
  ASSUME BillInv, NEW o \in DOMAIN order, NEW amount \in Int, stage = "adjust", stage' = "saved",
         kind' = kind, source' = source, todo' = todo,
         order'[o] = AdjustedOrder(order[o], amount) \/ order'[o] = order[o]
  PROVE  order'[o] \in OrderRow /\ OrderInv(o)'
<1> DEFINE d == order[o]
           L == d.lines
           l == PayLine(L[1].class, amount - d.total)
           M == Append(L, l)
           new == order'[o]
           T == Passed(o)
<1>1. /\ d \in OrderRow /\ L # <<>> /\ Holds(L, T)
      /\ kind = "tuition" => LinesPriced(L) /\ d.total = Total(L)
      /\ kind = "salary" => Rounded(o)
  BY DEF BillInv, BillTyped, OrderInv
<1>2. L \in Seq(BillLine) /\ d.total \in Int /\ d.sessions \in Int
  BY <1>1 DEF OrderRow
<1>3. T' = T /\ kind \in {"tuition", "salary"}
  BY DEF Passed, BillInv, BillTyped
<1>4. PICK K : K = new.lines
  OBVIOUS
<1>5. ASSUME new \in OrderRow, new.lines # <<>>, Holds(new.lines, T),
             kind = "tuition" => LinesPriced(new.lines) /\ new.total = Total(new.lines),
             kind = "salary" => LET off == 2 * (new.total - Total(new.lines))
                                    most == IF o \in CommissionOwner THEN 0 ELSE Len(new.lines) + 1
                                IN -most <= off /\ off <= most
      PROVE  OrderInv(o)'
  <2>1. Holds(order[o].lines, Passed(o))'
    BY <1>3, <1>5 DEF Holds
  <2>2. kind = "tuition" => (LinesPriced(order[o].lines) /\ order[o].total = Total(order[o].lines))'
    <3>1. LinesPriced(K) <=> LinesPriced(K)'
      BY DEF LinesPriced, Charge
    <3>2. LinesPriced(K)' <=> LinesPriced(order[o].lines)'
      BY <1>4 DEF LinesPriced
    <3>3. LinesPriced(K) <=> LinesPriced(new.lines)
      BY <1>4
    <3>4. Total(order[o].lines)' = Total(new.lines)
      BY DEF Total
    <3> QED
      BY <1>5, <3>1, <3>2, <3>3, <3>4
  <2>3. kind = "salary" => Rounded(o)'
    BY <1>5 DEF Rounded, Total
  <2> QED
    BY <1>3, <1>5, <2>1, <2>2, <2>3 DEF OrderInv
<1>6. CASE new = d
  <2>1. kind = "salary" => LET off == 2 * (new.total - Total(new.lines))
                               most == IF o \in CommissionOwner THEN 0 ELSE Len(new.lines) + 1
                           IN -most <= off /\ off <= most
    BY <1>1, <1>6 DEF Rounded
  <2> QED
    BY <1>1, <1>5, <1>6, <2>1
<1>7. CASE new # d
  <2>1. new = [d EXCEPT !.total = amount, !.lines = M] /\ new = AdjustedOrder(d, amount)
    <3>1. new = AdjustedOrder(d, amount) /\ amount # d.total
      BY <1>7 DEF AdjustedOrder
    <3> HIDE DEF d
    <3>2. new = [d EXCEPT !.total = amount, !.lines = Append(@, PayLine(@[1].class, amount - d.total))]
      BY <3>1 DEF AdjustedOrder
    <3> QED
      BY <3>1, <3>2
  <2>2. L[1] \in BillLine /\ L[1].class \in Class \union {"commission", "base"}
    <3>1. 1 \in DOMAIN L
      BY <1>1, <1>2
    <3>2. L[1] \in BillLine
      BY <1>2, <3>1, Lines
    <3> QED
      BY <3>2 DEF BillLine
  <2> DEFINE what == L[1].class
             more == amount - d.total
  <2>3. what \in Class \union {"commission", "base"} /\ more \in Int
    BY <1>2, <2>2
  <2>4. l = PayLine(what, more)
    OBVIOUS
  <2> HIDE DEF what, more
  <2>5. l \in BillLine /\ l.ids = {} /\ l.count = 0 /\ l.class = what /\ l.total = more
    BY <2>3, <2>4, PayLines
  <2>6. new = [total |-> amount, sessions |-> d.sessions, lines |-> M]
    BY <1>1, <2>1 DEF OrderRow
  <2> HIDE DEF l, L, T
  <2>7. /\ M \in Seq(BillLine) /\ M # <<>> /\ Len(M) = Len(L) + 1 /\ Holds(M, T)
        /\ Total(M) = Total(L) + l.total
        /\ LinesPriced(L) /\ l.class = L[1].class => LinesPriced(M)
    BY <1>1, <1>2, <2>5, LineAppended
  <2> HIDE DEF M, d, new
  <2>8. new \in OrderRow /\ new.lines = M /\ new.total = amount
    BY <1>2, <2>6, <2>7 DEF OrderRow
  <2> DEFINE a == Total(L)
             b == d.total
             k == Len(L)
             m == Total(M)
  <2>9. /\ a \in Int /\ b \in Int /\ k \in Nat /\ m \in Int
        /\ m = a + (amount - b) /\ Len(M) = k + 1
    BY <1>2, <2>5, <2>7, Lines DEF more
  <2>10. kind = "tuition" => LinesPriced(M) /\ amount = Total(M)
    <3>1. kind = "tuition" => b = a
      BY <1>1
    <3>2. kind = "tuition" => LinesPriced(M)
      BY <1>1, <2>5, <2>7 DEF what
    <3> HIDE DEF a, b, k, m
    <3>3. kind = "tuition" => amount = m
      BY <2>9, <3>1
    <3> QED
      BY <3>2, <3>3 DEF m
  <2>11. kind = "salary" => LET off == 2 * (amount - m)
                                most == IF o \in CommissionOwner THEN 0 ELSE (k + 1) + 1
                            IN -most <= off /\ off <= most
    <3>1. kind = "salary" => LET off == 2 * (b - a)
                                 most == IF o \in CommissionOwner THEN 0 ELSE k + 1
                             IN -most <= off /\ off <= most
      BY <1>1 DEF Rounded, d, L
    <3> HIDE DEF a, b, k, m
    <3>2. amount - m = b - a
      BY <2>9
    <3>3. (o \in CommissionOwner \/ o \notin CommissionOwner) /\ b - a \in Int
      BY <2>9
    <3> DEFINE e == b - a
    <3>4. kind = "salary" => LET off == 2 * e
                                 most == IF o \in CommissionOwner THEN 0 ELSE k + 1
                             IN -most <= off /\ off <= most
      BY <3>1
    <3>5. e \in Int /\ amount - m = e
      BY <3>2, <3>3
    <3> HIDE DEF e
    <3>6. kind = "salary" => LET off == 2 * e
                                 most == IF o \in CommissionOwner THEN 0 ELSE (k + 1) + 1
                             IN -most <= off /\ off <= most
      BY <2>9, <3>4, <3>5
    <3> QED
      BY <3>5, <3>6
  <2>12. kind = "salary" => LET off == 2 * (new.total - Total(new.lines))
                                most == IF o \in CommissionOwner THEN 0 ELSE Len(new.lines) + 1
                            IN -most <= off /\ off <= most
    BY <2>8, <2>9, <2>11
  <2>13. kind = "tuition" => LinesPriced(new.lines) /\ new.total = Total(new.lines)
    BY <2>8, <2>10
  <2>14. new.lines # <<>> /\ Holds(new.lines, T)
    BY <2>7, <2>8
  <2>15. OrderInv(o)'
    BY <1>5, <2>8, <2>12, <2>13, <2>14
  <2> QED
    BY <2>8, <2>15 DEF new
<1> QED
  BY <1>1, <1>5, <1>6, <1>7

\* The adjustments refuse the period, or are saved with it.
LEMMA AdjustKeeps ==
  ASSUME BillInv, NEW A \in SUBSET Owner, NEW amount \in Adjustment, Adjust(A, amount)
  PROVE  BillInv'
<1>1. stage = "adjust" /\ kind' = kind /\ source' = source /\ todo' = todo /\ amount \in Int
  BY BillConstants DEF Adjust
<1>2. BillTyped /\ SourceTables(kind)' = SourceTables(kind) /\ todo = {}
  BY <1>1 DEF BillInv
<1>3. CASE stage' = "refused" /\ order' = order
  <2>1. BillTyped'
    BY <1>1, <1>2, <1>3 DEF BillTyped
  <2>2. ASSUME NEW o \in DOMAIN order PROVE OrderInv(o)'
    <3>1. OrderInv(o)
      BY DEF BillInv
    <3>2. Passed(o)' = Passed(o)
      BY <1>1 DEF Passed
    <3>3. LinesPriced(order[o].lines)' <=> LinesPriced(order[o].lines)
      BY <1>1, <1>3 DEF LinesPriced, Charge
    <3>4. Rounded(o)' <=> Rounded(o)
      BY <1>3 DEF Rounded, Total
    <3> QED
      BY <1>1, <1>3, <3>1, <3>2, <3>3, <3>4 DEF OrderInv, Holds, Total
  <2> QED
    BY <1>1, <1>2, <1>3, <2>1, <2>2 DEF BillInv
<1>4. CASE /\ stage' = "saved"
           /\ order' = [o \in DOMAIN order |->
                          IF o \in A THEN AdjustedOrder(order[o], amount) ELSE order[o]]
  <2>1. \A o \in DOMAIN order : order'[o] = AdjustedOrder(order[o], amount) \/ order'[o] = order[o]
    BY <1>4
  <2>2. DOMAIN order' = DOMAIN order
    BY <1>4
  <2>3. \A o \in DOMAIN order : order'[o] \in OrderRow /\ OrderInv(o)'
    BY <1>1, <1>4, <2>1, OrderAdjusted
  <2>4. (order \in [DOMAIN order -> OrderRow])'
    BY <1>4, <2>2, <2>3
  <2>5. BillTyped'
    BY <1>1, <1>2, <1>4, <2>2, <2>4 DEF BillTyped
  <2> QED
    BY <1>1, <1>2, <1>4, <2>2, <2>3, <2>5 DEF BillInv
<1> QED
  BY <1>3, <1>4 DEF Adjust

-----------------------------------------------------------------------------
\* Nothing is billed yet.
LEMMA BillStarts == BillInit => BillInv
BY DEF BillInit, BillInv, BillTyped

\* Every step keeps the orders in order.
LEMMA BillKeeps ==
  ASSUME BillInv, [BillNext]_billVars
  PROVE  BillInv'
<1>1. CASE \E s \in SourceId : AddSource(s)
  BY <1>1, AddKeeps
<1>2. CASE \E revenue \in Revenue : Settle(revenue)
  BY <1>2, SettleKeeps
<1>3. CASE \E A \in SUBSET Owner, amount \in Adjustment : Adjust(A, amount)
  BY <1>3, AdjustKeeps
<1>4. CASE UNCHANGED billVars
  <2>1. kind' = kind /\ source' = source /\ todo' = todo /\ order' = order /\ stage' = stage
    BY <1>4 DEF billVars
  <2>2. BillTyped' <=> BillTyped
    BY <2>1 DEF BillTyped, SourceTables
  <2>3. \A revenue \in Revenue : PreviewSalary(revenue)' = PreviewSalary(revenue)
    BY <2>1 DEF PreviewSalary, OwnersBilled, OrderCharge, Charge
  <2>4. ASSUME NEW o \in DOMAIN order PROVE OrderInv(o)'
    <3>1. Passed(o)' = Passed(o) /\ Billed(o)' = Billed(o) /\ (Rounded(o)' <=> Rounded(o))
      BY <2>1 DEF Passed, Billed, Charge, Rounded, Total
    <3>2. LinesPriced(order[o].lines)' <=> LinesPriced(order[o].lines)
      BY <2>1 DEF LinesPriced, Charge
    <3>3. OrderInv(o)
      BY DEF BillInv
    <3> QED
      BY <2>1, <3>1, <3>2, <3>3 DEF OrderInv, Holds, Total
  <2> QED
    BY <2>1, <2>2, <2>3, <2>4 DEF BillInv
<1> QED
  BY <1>1, <1>2, <1>3, <1>4 DEF BillNext

\* A lesson is on one line.
LEMMA OnOneLine ==
  ASSUME NEW L, NEW T, Holds(L, T), NEW s \in T
  PROVE  Cardinality({i \in DOMAIN L : s \in L[i].ids}) = 1
<1>1. PICK i \in DOMAIN L : s \in L[i].ids
  BY DEF Holds
<1>2. {j \in DOMAIN L : s \in L[j].ids} = {i}
  BY <1>1 DEF Holds
<1> QED
  BY <1>2, FS_Singleton

\* The only line of a class is at what each lesson of the class costs.
LEMMA SheetAgrees ==
  ASSUME BillInv, kind = "tuition", NEW o \in DOMAIN order, NEW c \in Class,
         NEW i \in DOMAIN order[o].lines, LinesOf(o, c) = {i}, NEW s \in Of(o, c)
  PROVE  SheetAmounts(o, s) = {order[o].lines[i].rate}
<1> DEFINE L == order[o].lines
<1>1. Holds(L, Passed(o)) /\ LinesPriced(L) /\ s \in Passed(o) /\ source[s].class = c
  BY DEF BillInv, OrderInv, Of, Passed
<1>2. PICK j \in DOMAIN L : s \in L[j].ids
  BY <1>1 DEF Holds
<1>3. L[j].class = c /\ L[j].rate = Charge(s)
  BY <1>1, <1>2 DEF LinesPriced
<1>4. j = i
  BY <1>2, <1>3 DEF LinesOf
<1>5. L[i].rate = IF source[s].present THEN source[s].rate ELSE 0
  BY <1>3, <1>4 DEF Charge
<1>6. SheetRates(o, s) = {source[s].rate} \/ SheetRates(o, s) = {L[i].rate}
  BY <1>1 DEF SheetRates
<1> QED
  BY <1>5, <1>6 DEF SheetAmounts

\* What the invariant says of every order
LEMMA Explained == BillInv => OrderExplained
<1> SUFFICES ASSUME BillInv PROVE OrderExplained
  OBVIOUS
<1>1. stage = "adjust" => LET totals == [o \in DOMAIN order |-> order[o].total]
                          IN IF kind = "tuition" THEN totals = PreviewTuition
                             ELSE \E revenue \in Revenue : totals = PreviewSalary(revenue)
  <2> SUFFICES ASSUME stage = "adjust", kind = "tuition"
               PROVE  [o \in DOMAIN order |-> order[o].total] = PreviewTuition
    BY DEF BillInv, BillTyped
  <2>1. todo = {} /\ DOMAIN order = {source[s].owner : s \in SourceId \ todo}
    BY DEF BillInv
  <2>2. DOMAIN order = OwnersBilled /\ \A o : OrderCharge(o) = Billed(o)
    BY <2>1, AllPassed
  <2>3. \A o \in DOMAIN order : order[o].total = OrderCharge(o)
    BY <2>2 DEF BillInv, OrderInv
  <2> QED
    BY <2>2, <2>3 DEF PreviewTuition
<1>2. ASSUME NEW o \in DOMAIN order
      PROVE  LET L == order[o].lines
                 off == 2 * (order[o].total - Total(L))
                 rounded == IF o \in CommissionOwner THEN 0 ELSE Len(L) + 1
             IN /\ \A s \in SourceId \ todo : source[s].owner = o =>
                     Cardinality({i \in DOMAIN L : s \in L[i].ids}) = 1
                /\ \A i \in DOMAIN L : Cardinality(L[i].ids) = L[i].count
                /\ kind = "salary" => -rounded <= off /\ off <= rounded
                /\ kind = "tuition" =>
                     /\ \A i \in DOMAIN L : L[i].ids # {} => L[i].total = L[i].count * L[i].rate
                     /\ off = 0
                     /\ \A c \in Class, i \in DOMAIN L : LinesOf(o, c) = {i} =>
                          \A s \in Of(o, c) : SheetAmounts(o, s) = {L[i].rate}
  <2> DEFINE L == order[o].lines
  <2>1. OrderInv(o) /\ order[o] \in OrderRow /\ kind \in {"tuition", "salary"}
    BY DEF BillInv, BillTyped
  <2>2. Holds(L, Passed(o)) /\ L \in Seq(BillLine) /\ order[o].total \in Int /\ L # <<>>
    BY <2>1 DEF OrderInv, OrderRow
  <2>3. \A s \in SourceId \ todo : source[s].owner = o =>
          Cardinality({i \in DOMAIN L : s \in L[i].ids}) = 1
    BY <2>2, OnOneLine DEF Passed
  <2>4. \A i \in DOMAIN L : Cardinality(L[i].ids) = L[i].count
    BY <2>2 DEF Holds
  <2>5. kind = "salary" => LET off == 2 * (order[o].total - Total(L))
                               rounded == IF o \in CommissionOwner THEN 0 ELSE Len(L) + 1
                           IN -rounded <= off /\ off <= rounded
    <3>1. CASE kind = "salary" /\ stage = "calculate"
      <4> DEFINE n == Len(L)
      <4>1. order[o].total = Total(L) /\ n \in Nat
        BY <2>1, <2>2, <3>1 DEF OrderInv
      <4>2. 2 * (order[o].total - Total(L)) = 0
        BY <2>2, <4>1
      <4> HIDE DEF n
      <4>3. -(n + 1) <= 0 /\ 0 <= n + 1 /\ -0 <= 0
        BY <4>1
      <4> QED
        BY <4>2, <4>3 DEF n
    <3>2. CASE kind = "salary" /\ stage # "calculate"
      BY <2>1, <3>2 DEF OrderInv, Rounded
    <3> QED
      BY <3>1, <3>2
  <2>6. ASSUME kind = "tuition"
        PROVE  /\ \A i \in DOMAIN L : L[i].ids # {} => L[i].total = L[i].count * L[i].rate
               /\ 2 * (order[o].total - Total(L)) = 0
               /\ \A c \in Class, i \in DOMAIN L : LinesOf(o, c) = {i} =>
                    \A s \in Of(o, c) : SheetAmounts(o, s) = {L[i].rate}
    <3>1. LinesPriced(L) /\ order[o].total = Total(L)
      BY <2>1, <2>6 DEF OrderInv
    <3>2. 2 * (order[o].total - Total(L)) = 0
      BY <2>2, <3>1
    <3>3. \A i \in DOMAIN L : L[i].ids # {} => L[i].total = L[i].count * L[i].rate
      BY <3>1 DEF LinesPriced
    <3>4. \A c \in Class, i \in DOMAIN L : LinesOf(o, c) = {i} =>
            \A s \in Of(o, c) : SheetAmounts(o, s) = {L[i].rate}
      BY <2>6, SheetAgrees
    <3> QED
      BY <3>2, <3>3, <3>4
  <2> QED
    BY <2>3, <2>4, <2>5, <2>6
<1> QED
  BY <1>1, <1>2 DEF OrderExplained

\* Whatever the lessons, prices and adjustments and in whatever order the loop
\* finds the lessons, a new period charges and pays what was previewed, and every
\* order can be explained line by line (billing-calculator and
\* create-payment-period).
THEOREM OrdersExplained == BillSpec => []OrderExplained
<1>1. BillInv /\ [BillNext]_billVars => BillInv'
  BY BillKeeps
<1> QED
  BY BillStarts, <1>1, Explained, PTL DEF BillSpec

-----------------------------------------------------------------------------
(* The clock                                                                *)

ClockTyped ==
  /\ scanned \subseteq ScanTime /\ IsFiniteSet(scanned) /\ logs \subseteq scanned
  /\ closed \subseteq 1..Lessons
  /\ matched \in [ScanTime -> SUBSET (1..Lessons)]
  /\ mark \in [1..Lessons -> ClockMark]

\* Lesson i, or one it follows within the hour, has a scan of T near it.
Near(S, i, T) ==
  \E j \in S : /\ j <= i /\ (j = i \/ Start[i] - End[j] \in 0..60)
               /\ \E t \in T : j \in Windows(S, t)

MarksExplained ==
  \A i \in OpenSessions :
    mark[i].type = "machine" /\ mark[i].present =>
      \E j \in 1..i : /\ j = i \/ Start[i] - End[j] \in 0..60
                      /\ \E t \in logs : j \in matched[t]

ClockInv == ClockTyped /\ MarksExplained

\* Times are numbers.
LEMMA ClockTimes ==
  ASSUME NEW i \in 1..Lessons
  PROVE  i \in Int /\ Start[i] \in Int /\ End[i] \in Int /\ Start[i] < End[i]
  BY ClockConstants

\* K has the scans of L that are five minutes or more after those of K before.
Thinned(L, K) ==
  /\ K \subseteq L
  /\ \A t \in L : t \in K <=> \A u \in K : u < t => t - u >= 5

\* The filter by its steps
FilterStep(kept, t) == IF Keep(kept, t) THEN kept \union {t} ELSE kept

Filters(L, g) ==
  g = [s \in SUBSET L |-> IF s = {} THEN {} ELSE FilterStep(g[s \ {Max(s)}], Max(s))]

\* Its steps can be run.
LEMMA FilterRuns ==
  ASSUME NEW L, IsFiniteSet(L), L \subseteq Nat
  PROVE  \E g : Filters(L, g) /\ Filtered(L) = g[L]
<1> DEFINE X == SUBSET L
           step == [z \in X \X L |-> FilterStep(z[1], z[2])]
<1>1. \A kept \in X, t \in L : FilterStep(kept, t) \in X
  BY DEF FilterStep
<1>2. step \in [X \X L -> X]
  BY <1>1
<1>3. {} \in X /\ L \subseteq Int
  OBVIOUS
<1>4. PICK g \in [SUBSET L -> X] : Ascends(SUBSET L, {}, step, g)
  <2> HIDE DEF X, step
  <2> QED
    BY <1>2, <1>3, AscentExists
<1>5. ASSUME NEW s \in SUBSET L, s # {}
      PROVE  g[s] = FilterStep(g[s \ {Max(s)}], Max(s))
  <2>1. Max(s) \in L /\ s \ {Max(s)} \in SUBSET L
    BY <1>3, <1>5, FS_Subset, WithoutGreatest
  <2>2. g[s \ {Max(s)}] \in X
    BY <1>4, <2>1
  <2>3. g[s] = step[<<g[s \ {Max(s)}], Max(s)>>]
    BY <1>4, <1>5 DEF Ascends
  <2> QED
    BY <2>1, <2>2, <2>3
<1>6. Filters(L, g)
  <2>1. g[{}] = {}
    BY <1>4 DEF Ascends
  <2> HIDE DEF X, step
  <2>2. g = [s \in SUBSET L |-> IF s = {} THEN {} ELSE FilterStep(g[s \ {Max(s)}], Max(s))]
    BY <1>4, <1>5, <2>1
  <2> QED
    BY <2>2 DEF Filters
<1> DEFINE h == CHOOSE f : Filters(L, f)
<1>7. Filters(L, h)
  BY <1>6
<1>8. Filtered(L) = h[L]
  BY DEF Filtered, InOrder, MapThenFoldSet, Filters, FilterStep
<1> QED
  BY <1>7, <1>8

\* It thins the scans out.
LEMMA FilteredThins ==
  ASSUME NEW L, IsFiniteSet(L), L \subseteq Nat
  PROVE  Thinned(L, Filtered(L))
<1>1. PICK g : Filters(L, g) /\ Filtered(L) = g[L]
  BY FilterRuns
<1> DEFINE Good == {s \in SUBSET L : Thinned(s, g[s])}
<1>2. ASSUME NEW s \in SUBSET L, \A t \in SUBSET s : t # s => t \in Good
      PROVE  s \in Good
  <2> DEFINE m == Max(s)
             rest == s \ {m}
             before == g[rest]
  <2>1. g[s] = IF s = {} THEN {} ELSE FilterStep(before, m)
    BY <1>1 DEF Filters
  <2>2. CASE s = {}
    BY <2>1, <2>2 DEF Thinned
  <2>3. CASE s # {}
    <3>1. IsFiniteSet(s) /\ s \subseteq Int /\ s \subseteq Nat
      <4>1. s \subseteq L /\ s \subseteq Int /\ s \subseteq Nat
        OBVIOUS
      <4> HIDE DEF m, rest, before
      <4> QED
        BY <4>1, FS_Subset
    <3>2. m \in s /\ \A u \in s : u <= m
      BY <2>3, <3>1, WithoutGreatest
    <3>3. rest \in SUBSET s /\ rest # s
      BY <3>2
    <3>4. Thinned(rest, before)
      <4> HIDE DEF m, rest, before
      <4> QED
        BY <1>2, <3>3 DEF before
    <3>5. m \in Nat /\ \A u \in rest : u \in Nat /\ u < m /\ u \in s
      <4> HIDE DEF before, m
      <4>1. \A u \in rest : u \in s /\ u # m
        OBVIOUS
      <4> HIDE DEF rest
      <4>2. m \in Nat /\ \A u \in rest : u \in Nat /\ u \in s /\ u # m /\ u <= m
        BY <3>1, <3>2, <4>1
      <4> QED
        BY <4>2
    <3>6. before \subseteq rest
      BY <3>4 DEF Thinned
    <3> HIDE DEF m, rest, before
    <3>7. Keep(before, m) <=> \A u \in before : m - u >= 5
      <4>1. CASE before = {}
        BY <4>1 DEF Keep
      <4>2. CASE before # {}
        <5>1. IsFiniteSet(before) /\ before \subseteq Int /\ before \subseteq s
          BY <3>1, <3>3, <3>5, <3>6, FS_Subset
        <5> DEFINE x == Max(before)
        <5>2. x \in before /\ \A u \in before : u <= x
          BY <4>2, <5>1, WithoutGreatest
        <5>3. Keep(before, m) <=> m - x >= 5
          BY <4>2 DEF Keep
        <5> HIDE DEF x
        <5>4. x \in Nat /\ \A u \in before : u \in Nat
          BY <3>5, <3>6, <5>2
        <5> QED
          BY <3>5, <5>2, <5>3, <5>4
      <4> QED
        BY <4>1, <4>2
    <3>8. s = rest \union {m} /\ m \notin rest
      BY <3>2 DEF rest
    <3>9. CASE Keep(before, m)
      <4>1. g[s] = before \union {m}
        BY <2>1, <2>3, <3>9 DEF FilterStep
      <4>2. ASSUME NEW t \in rest
            PROVE  t \in g[s] <=> \A u \in g[s] : u < t => t - u >= 5
        <5>1. t \in before <=> \A u \in before : u < t => t - u >= 5
          BY <3>4 DEF Thinned
        <5>2. ~(m < t) /\ t # m
          BY <3>5
        <5> QED
          BY <4>1, <5>1, <5>2
      <4>3. \A u \in g[s] : u < m => m - u >= 5
        BY <3>5, <3>7, <3>9, <4>1
      <4>4. g[s] \subseteq s /\ m \in g[s]
        BY <3>6, <3>8, <4>1
      <4>5. \A t \in s : t \in g[s] <=> \A u \in g[s] : u < t => t - u >= 5
        BY <3>8, <4>2, <4>3, <4>4
      <4> QED
        BY <4>4, <4>5 DEF Thinned
    <3>10. CASE ~Keep(before, m)
      <4>1. g[s] = before
        BY <2>1, <2>3, <3>10 DEF FilterStep
      <4>2. PICK x \in before : ~(m - x >= 5)
        BY <3>7, <3>10
      <4>3. m \notin g[s] /\ x < m
        BY <3>5, <3>6, <3>8, <4>1, <4>2
      <4>4. \A t \in rest : t \in g[s] <=> \A u \in g[s] : u < t => t - u >= 5
        BY <3>4, <4>1 DEF Thinned
      <4>5. \A t \in s : t \in g[s] <=> \A u \in g[s] : u < t => t - u >= 5
        BY <3>8, <4>1, <4>2, <4>3, <4>4
      <4>6. g[s] \subseteq s
        BY <3>6, <3>8, <4>1
      <4> QED
        BY <4>5, <4>6 DEF Thinned
    <3> QED
      BY <3>9, <3>10
  <2> QED
    BY <2>2, <2>3
<1>3. L \in Good
  <2> HIDE DEF Good
  <2> QED
    BY <1>2, PartsInduction
<1> QED
  BY <1>1, <1>3

\* There is one way to thin them out.
LEMMA ThinnedOnce ==
  ASSUME NEW L, L \subseteq Nat, NEW J, NEW K, Thinned(L, J), Thinned(L, K)
  PROVE  J = K
<1> DEFINE D == {t \in L : ~(t \in J <=> t \in K)}
<1>1. D = {}
  <2> SUFFICES ASSUME D # {} PROVE FALSE
    OBVIOUS
  <2>1. PICK t \in D : \A u \in D : t <= u
    BY Least
  <2>2. t \in L /\ t \in Nat /\ ~(t \in J <=> t \in K)
    BY <2>1
  <2>3. \A u \in L : u < t => (u \in J <=> u \in K)
    <3> SUFFICES ASSUME NEW u \in L, u < t, ~(u \in J <=> u \in K) PROVE FALSE
      OBVIOUS
    <3>1. t <= u /\ u \in Nat
      BY <2>1
    <3> QED
      BY <2>2, <3>1
  <2>4. J \subseteq L /\ K \subseteq L
    BY DEF Thinned
  <2>5. /\ t \in J <=> \A u \in J : u < t => t - u >= 5
        /\ t \in K <=> \A u \in K : u < t => t - u >= 5
    BY <2>2 DEF Thinned
  <2> HIDE DEF D
  <2> QED
    BY <2>2, <2>3, <2>4, <2>5
<1> QED
  BY <1>1 DEF Thinned

\* A scan soon after one that is kept changes nothing.
LEMMA SecondScan ==
  ASSUME NEW L, IsFiniteSet(L), L \subseteq Nat, NEW t \in Filtered(L), NEW u \in Nat,
         u > t, u - t < 5
  PROVE  Filtered(L \union {u}) = Filtered(L)
<1> DEFINE M == L \union {u}
           K == Filtered(L)
<1>1. Thinned(L, K) /\ IsFiniteSet(M) /\ M \subseteq Nat
  BY FilteredThins, FS_AddElement
<1>2. Thinned(M, Filtered(M))
  BY <1>1, FilteredThins
<1> HIDE DEF K
<1>3. t \in K /\ t \in Nat
  BY <1>1 DEF Thinned, K
<1>4. u \notin K
  <2>1. u \in K => \A v \in K : v < u => u - v >= 5
    BY <1>1 DEF Thinned
  <2> QED
    BY <1>3, <2>1
<1>5. ~\A v \in K : v < u => u - v >= 5
  BY <1>3
<1>6. Thinned(M, K)
  BY <1>1, <1>4, <1>5 DEF Thinned
<1> QED
  BY <1>1, <1>2, <1>6, ThinnedOnce DEF K

\* What the matcher has found of a lesson
Result == [present : BOOLEAN, late : Nat, in : Int, out : Int]

\* What is found of a lesson may change.
LEMMA ResultChanges ==
  ASSUME NEW q \in Result, NEW t \in Int, NEW n \in Nat
  PROVE  /\ [q EXCEPT !.present = TRUE, !.in = t, !.late = n] \in Result
         /\ [q EXCEPT !.present = TRUE, !.in = t] \in Result
         /\ [q EXCEPT !.out = t] \in Result /\ [q EXCEPT !.out = t].present = q.present
         /\ [q EXCEPT !.present = FALSE, !.in = -1] \in Result
         /\ ~[q EXCEPT !.present = FALSE, !.in = -1].present
<1>1. [q EXCEPT !.present = TRUE, !.in = t, !.late = n] \in Result
  BY DEF Result
<1>2. [q EXCEPT !.present = TRUE, !.in = t] \in Result
  BY DEF Result
<1>3. [q EXCEPT !.out = t] \in Result /\ [q EXCEPT !.out = t].present = q.present
  BY DEF Result
<1>4. [q EXCEPT !.present = FALSE, !.in = -1] \in Result
  <2> DEFINE none == -1
  <2>1. none \in Int
    OBVIOUS
  <2> HIDE DEF none
  <2>2. [q EXCEPT !.present = FALSE, !.in = none] \in Result
    BY <2>1 DEF Result
  <2> QED
    BY <2>2 DEF none
<1>5. [q EXCEPT !.present = FALSE, !.in = -1].present = FALSE
  BY DEF Result
<1> QED
  BY <1>1, <1>2, <1>3, <1>4, <1>5

\* One scan: only a lesson with a scan near it, or near the one before, becomes present.
LEMMA TakeFinds ==
  ASSUME NEW S, S \subseteq 1..Lessons, NEW r \in [S -> Result], NEW t \in Nat
  PROVE  /\ Take(r, S, t) \in [S -> Result]
         /\ \A i \in S : Take(r, S, t)[i].present => r[i].present \/ Near(S, i, {t})
<1>1. \A i \in S : /\ i \in Int /\ Start[i] \in Int /\ End[i] \in Int /\ Start[i] < End[i]
                   /\ r[i] \in Result
  BY ClockTimes
<1>2. ASSUME NEW i \in S, ChecksIn(r, i, t)
      PROVE  /\ CheckIn(r, S, i, t) \in [S -> Result]
             /\ \A j \in S : CheckIn(r, S, i, t)[j].present => r[j].present \/ Near(S, j, {t})
  <2>1. i \in Windows(S, t)
    BY <1>1, <1>2 DEF ChecksIn, Windows
  <2>2. Near(S, i, {t})
    BY <1>1, <2>1 DEF Near
  <2>3. \A j \in Consecutive(S, i) : Near(S, j, {t})
    BY <1>1, <2>1 DEF Near, Consecutive, Following
  <2>4. ASSUME NEW j \in S
        PROVE  /\ CheckIn(r, S, i, t)[j] \in Result
               /\ CheckIn(r, S, i, t)[j].present => r[j].present \/ Near(S, j, {t})
    <3>1. CASE j = i
      <4> DEFINE q == r[i]
                 n == IF t > Start[i] THEN t - Start[i] ELSE 0
      <4>1. CheckIn(r, S, i, t)[j] = [q EXCEPT !.present = TRUE, !.in = t, !.late = n]
        BY <3>1 DEF CheckIn
      <4>2. n \in Nat /\ q \in Result /\ t \in Int
        BY <1>1
      <4> HIDE DEF n, q
      <4>3. [q EXCEPT !.present = TRUE, !.in = t, !.late = n] \in Result
        BY <4>2, ResultChanges
      <4> QED
        BY <2>2, <3>1, <4>1, <4>3
    <3>2. CASE j # i /\ j \in Consecutive(S, i) /\ ~r[j].present
      <4> DEFINE q == r[j]
      <4>1. CheckIn(r, S, i, t)[j] = [q EXCEPT !.present = TRUE, !.in = t]
        BY <3>2 DEF CheckIn
      <4>2. q \in Result /\ t \in Int
        BY <1>1
      <4> HIDE DEF q
      <4>3. [q EXCEPT !.present = TRUE, !.in = t] \in Result
        BY <4>2, ResultChanges
      <4> QED
        BY <2>3, <3>2, <4>1, <4>3
    <3>3. CASE j # i /\ ~(j \in Consecutive(S, i) /\ ~r[j].present)
      <4>1. CheckIn(r, S, i, t)[j] = r[j]
        BY <3>3 DEF CheckIn
      <4> QED
        BY <1>1, <4>1
    <3> QED
      BY <3>1, <3>2, <3>3
  <2>5. CheckIn(r, S, i, t) = [j \in S |-> CheckIn(r, S, i, t)[j]]
    BY DEF CheckIn
  <2> QED
    BY <2>4, <2>5
<1>3. ASSUME NEW i \in S
      PROVE  /\ CheckOut(r, S, i, t) \in [S -> Result]
             /\ \A j \in S : CheckOut(r, S, i, t)[j].present => r[j].present
  <2>1. ASSUME NEW j \in S
        PROVE  /\ CheckOut(r, S, i, t)[j] \in Result
               /\ CheckOut(r, S, i, t)[j].present => r[j].present
    <3> DEFINE q == r[j]
               new == CheckOut(r, S, i, t)[j]
    <3>1. \/ new = q \/ new = [q EXCEPT !.out = t]
          \/ new = [q EXCEPT !.present = FALSE, !.in = -1]
      BY DEF CheckOut
    <3>2. q \in Result /\ t \in Int
      BY <1>1
    <3> HIDE DEF q, new
    <3>3. /\ [q EXCEPT !.out = t] \in Result /\ [q EXCEPT !.out = t].present = q.present
          /\ [q EXCEPT !.present = FALSE, !.in = -1] \in Result
          /\ ~[q EXCEPT !.present = FALSE, !.in = -1].present
      BY <3>2, ResultChanges
    <3>4. new \in Result /\ (new.present => q.present)
      BY <3>1, <3>2, <3>3
    <3> QED
      BY <3>4 DEF q, new
  <2>2. CheckOut(r, S, i, t) = [j \in S |-> CheckOut(r, S, i, t)[j]]
    BY DEF CheckOut
  <2> QED
    BY <2>1, <2>2
<1> DEFINE users == {i \in S : \/ ChecksIn(r, i, t) \/ LeavesBetween(r, S, i, t)
                               \/ LeavesEarly(r, i, t) \/ LeavesAfter(r, i, t)}
           first == CHOOSE i \in users : \A j \in users : i <= j
<1>4. CASE users = {}
  BY <1>4 DEF Take
<1>5. CASE users # {}
  <2>1. users \subseteq S /\ users \subseteq Nat
    <3>1. \A i \in S : i \in Nat
      OBVIOUS
    <3> QED
      BY <3>1
  <2>2. first \in S
    <3> HIDE DEF users
    <3>1. \E i \in users : \A j \in users : i <= j
      BY <1>5, <2>1, Least
    <3> QED
      BY <2>1, <3>1
  <2>3. Take(r, S, t) =
          IF ChecksIn(r, first, t) THEN CheckIn(r, S, first, t) ELSE CheckOut(r, S, first, t)
    BY <1>5 DEF Take
  <2> HIDE DEF first
  <2> QED
    BY <1>2, <1>3, <2>2, <2>3
<1> QED
  BY <1>4, <1>5

\* The matcher by its steps
Matches(S, K, g) ==
  g = [s \in SUBSET K |-> IF s = {} THEN [i \in S |-> NoShow]
                          ELSE Take(g[s \ {Max(s)}], S, Max(s))]

MadeUp(K, i) == \E t \in K : t >= End[i] /\ t <= End[i] + 60

Marks(S, K, r) ==
  [i \in S |-> [present |-> r[i].present \/ MadeUp(K, i), late |-> r[i].late,
                type |-> "machine"]]

\* Its steps can be run.
LEMMA MatchRuns ==
  ASSUME NEW S, S \subseteq 1..Lessons, NEW L, IsFiniteSet(L), L \subseteq Nat
  PROVE  \E g : /\ Matches(S, Filtered(L), g)
                /\ Match(S, L) = Marks(S, Filtered(L), g[Filtered(L)])
<1> DEFINE K == Filtered(L)
           X == [S -> Result]
           base == [i \in S |-> NoShow]
           step == [z \in X \X K |-> Take(z[1], S, z[2])]
<1>1. IsFiniteSet(K) /\ K \subseteq Nat
  BY FilteredThins, FS_Subset DEF Thinned
<1>2. K \subseteq Int
  BY <1>1
<1>3. base \in X
  BY DEF NoShow, Result
<1>4. step \in [X \X K -> X]
  <2> HIDE DEF K
  <2> QED
    BY <1>1, TakeFinds
<1>5. PICK g \in [SUBSET K -> X] : Ascends(SUBSET K, base, step, g)
  <2> HIDE DEF K, X, base, step
  <2> QED
    BY <1>1, <1>2, <1>3, <1>4, AscentExists
<1>6. ASSUME NEW s \in SUBSET K, s # {}
      PROVE  g[s] = Take(g[s \ {Max(s)}], S, Max(s))
  <2>1. Max(s) \in K /\ s \ {Max(s)} \in SUBSET K
    <3> HIDE DEF K
    <3>1. IsFiniteSet(s) /\ s \subseteq Int
      BY <1>1, <1>2, FS_Subset
    <3> QED
      BY <1>6, <3>1, WithoutGreatest
  <2>2. g[s \ {Max(s)}] \in X
    BY <1>5, <2>1
  <2>3. g[s] = step[<<g[s \ {Max(s)}], Max(s)>>]
    BY <1>5, <1>6 DEF Ascends
  <2> HIDE DEF X, K
  <2> QED
    BY <2>1, <2>2, <2>3
<1>7. Matches(S, K, g)
  <2>1. g[{}] = base
    BY <1>5 DEF Ascends
  <2> HIDE DEF X, K
  <2>2. g = [s \in SUBSET K |-> IF s = {} THEN base ELSE Take(g[s \ {Max(s)}], S, Max(s))]
    <3> HIDE DEF base, step
    <3> QED
      BY <1>5, <1>6, <2>1
  <2> QED
    BY <2>2 DEF Matches
<1> DEFINE h == CHOOSE f : Matches(S, K, f)
<1>8. Matches(S, K, h)
  <2> HIDE DEF K
  <2> QED
    BY <1>7
<1>9. Match(S, L) = Marks(S, K, h[K])
  BY DEF Match, InOrder, MapThenFoldSet, Matches, Marks, MadeUp
<1> QED
  BY <1>8, <1>9

\* A lesson is present by a scan near it, or near the one before.
LEMMA MatchFinds ==
  ASSUME NEW S, S \subseteq 1..Lessons, NEW L, IsFiniteSet(L), L \subseteq Nat
  PROVE  /\ Match(S, L) \in [S -> ClockMark]
         /\ \A i \in S : Match(S, L)[i].present => Near(S, i, L)
<1> DEFINE K == Filtered(L)
<1>1. PICK g : Matches(S, K, g) /\ Match(S, L) = Marks(S, K, g[K])
  BY MatchRuns
<1>2. IsFiniteSet(K) /\ K \subseteq L /\ K \subseteq Nat /\ K \subseteq Int
  <2>1. K \subseteq L
    BY FilteredThins DEF Thinned
  <2>2. K \subseteq Nat /\ K \subseteq Int
    <3> HIDE DEF K
    <3> QED
      BY <2>1
  <2> QED
    BY <2>1, <2>2, FS_Subset
<1> HIDE DEF K
<1> DEFINE Good == {s \in SUBSET K : /\ g[s] \in [S -> Result]
                                     /\ \A i \in S : g[s][i].present => Near(S, i, s)}
<1>3. ASSUME NEW s \in SUBSET K, \A t \in SUBSET s : t # s => t \in Good
      PROVE  s \in Good
  <2> DEFINE m == Max(s)
             rest == s \ {m}
  <2>1. g[s] = IF s = {} THEN [i \in S |-> NoShow] ELSE Take(g[rest], S, m)
    BY <1>1 DEF Matches
  <2>2. CASE s = {}
    <3>1. NoShow \in Result /\ ~NoShow.present
      BY DEF NoShow, Result
    <3>2. g[s] = [i \in S |-> NoShow]
      BY <2>1, <2>2
    <3> QED
      BY <3>1, <3>2
  <2>3. CASE s # {}
    <3>1. IsFiniteSet(s) /\ s \subseteq Int
      BY <1>2, FS_Subset
    <3>2. m \in s
      BY <2>3, <3>1, WithoutGreatest
    <3>3. m \in Nat /\ rest \in SUBSET s /\ rest # s
      BY <1>2, <3>2
    <3>4. g[rest] \in [S -> Result] /\ \A i \in S : g[rest][i].present => Near(S, i, rest)
      <4> HIDE DEF rest, m
      <4> QED
        BY <1>3, <3>3
    <3> HIDE DEF m, rest
    <3>5. /\ g[s] \in [S -> Result]
          /\ \A i \in S : g[s][i].present => g[rest][i].present \/ Near(S, i, {m})
      <4> DEFINE q == g[rest]
      <4>1. g[s] = Take(q, S, m) /\ q \in [S -> Result]
        BY <2>1, <2>3, <3>4
      <4> HIDE DEF q
      <4>2. /\ Take(q, S, m) \in [S -> Result]
            /\ \A i \in S : Take(q, S, m)[i].present => q[i].present \/ Near(S, i, {m})
        BY <3>3, <4>1, TakeFinds
      <4> QED
        BY <4>1, <4>2 DEF q
    <3>6. \A i \in S : Near(S, i, {m}) \/ Near(S, i, rest) => Near(S, i, s)
      BY <3>2, <3>3 DEF Near
    <3> QED
      BY <3>4, <3>5, <3>6
  <2> QED
    BY <2>2, <2>3
<1>4. K \in Good
  <2> HIDE DEF Good
  <2> QED
    BY <1>2, <1>3, PartsInduction
<1> DEFINE r == g[K]
<1>5. r \in [S -> Result] /\ \A i \in S : r[i].present => Near(S, i, L)
  BY <1>2, <1>4 DEF Near
<1>6. ASSUME NEW i \in S, MadeUp(K, i)
      PROVE  Near(S, i, L)
  <2>1. PICK t \in K : t >= End[i] /\ t <= End[i] + 60
    BY <1>6 DEF MadeUp
  <2>2. t \in L /\ t \in Nat
    BY <1>2
  <2>3. i \in Int /\ Start[i] \in Int /\ End[i] \in Int /\ Start[i] < End[i]
    BY ClockTimes
  <2>4. i \in Windows(S, t)
    BY <2>1, <2>2, <2>3 DEF Windows
  <2> QED
    BY <2>2, <2>3, <2>4 DEF Near
<1> HIDE DEF r
<1>7. Match(S, L) = Marks(S, K, r)
  BY <1>1 DEF r
<1>8. ASSUME NEW i \in S
      PROVE  /\ Match(S, L)[i] \in ClockMark
             /\ Match(S, L)[i].present => Near(S, i, L)
  <2>1. Match(S, L)[i] = [present |-> r[i].present \/ MadeUp(K, i), late |-> r[i].late,
                          type |-> "machine"]
    BY <1>7 DEF Marks
  <2>2. r[i].present \in BOOLEAN /\ r[i].late \in Nat
    BY <1>5 DEF Result
  <2>3. MadeUp(K, i) \in BOOLEAN
    BY DEF MadeUp
  <2> QED
    BY <1>5, <1>6, <2>1, <2>2, <2>3 DEF ClockMark
<1>9. Match(S, L) = [i \in S |-> Match(S, L)[i]]
  BY <1>7 DEF Marks
<1> QED
  BY <1>8, <1>9

-----------------------------------------------------------------------------
\* Processing some log rows
LEMMA ProcessKeeps ==
  ASSUME ClockInv, NEW L, L \subseteq scanned, Process(L), UNCHANGED <<scanned, closed>>
  PROVE  ClockInv'
<1> DEFINE S == OpenSessions
<1>1. S \subseteq 1..Lessons /\ S' = S
  BY DEF OpenSessions
<1>2. L \subseteq Nat /\ IsFiniteSet(L) /\ L \subseteq ScanTime
  BY ClockConstants, FS_Subset DEF ClockInv, ClockTyped
<1>3. Match(S, L) \in [S -> ClockMark] /\ \A i \in S : Match(S, L)[i].present => Near(S, i, L)
  BY <1>1, <1>2, MatchFinds
<1>4. logs' = L /\ matched' = [t \in ScanTime |-> IF t \in L THEN Windows(S, t) ELSE {}]
  BY DEF Process
<1>5. mark' = [i \in 1..Lessons |->
                 IF i \in S /\ mark[i].type # "manual" THEN Match(S, L)[i] ELSE mark[i]]
  BY DEF Process
<1> HIDE DEF S
<1>6. \A t : Windows(S, t) \subseteq 1..Lessons
  BY <1>1 DEF Windows
<1>7. mark' \in [1..Lessons -> ClockMark]
  BY <1>3, <1>5 DEF ClockInv, ClockTyped
<1>8. ClockTyped'
  BY <1>4, <1>6, <1>7 DEF ClockInv, ClockTyped
<1>9. ASSUME NEW i \in S, mark'[i].type = "machine", mark'[i].present
      PROVE  \E j \in 1..i : /\ j = i \/ Start[i] - End[j] \in 0..60
                             /\ \E t \in L : j \in matched'[t]
  <2>1. i \in 1..Lessons
    BY <1>1
  <2>2. mark[i].type # "manual" /\ mark'[i] = Match(S, L)[i]
    BY <1>5, <1>9, <2>1
  <2>3. PICK j \in S : /\ j <= i /\ (j = i \/ Start[i] - End[j] \in 0..60)
                       /\ \E t \in L : j \in Windows(S, t)
    BY <1>3, <1>9, <2>2 DEF Near
  <2>4. j \in 1..i
    BY <1>1, <2>1, <2>3
  <2>5. \E t \in L : j \in matched'[t]
    BY <1>2, <1>4, <2>3
  <2> QED
    BY <2>3, <2>4, <2>5
<1>10. MarksExplained'
  BY <1>1, <1>4, <1>9 DEF MarksExplained, S
<1> QED
  BY <1>8, <1>10 DEF ClockInv

\* Every step of the clock
LEMMA ClockKeeps ==
  ASSUME ClockInv, [ClockNext]_clockVars
  PROVE  ClockInv'
<1> USE DEF ClockInv, ClockTyped
<1>1. CASE UNCHANGED clockVars
  BY <1>1 DEF clockVars, MarksExplained, OpenSessions
<1>2. ASSUME NEW t \in ScanTime, Scan(t)
      PROVE  ClockInv'
  <2>1. scanned' = scanned \union {t} /\ UNCHANGED <<logs, matched, mark, closed>>
    BY <1>2 DEF Scan
  <2>2. IsFiniteSet(scanned')
    BY <2>1, FS_AddElement
  <2> QED
    BY <2>1, <2>2 DEF MarksExplained, OpenSessions
<1>3. ASSUME NEW t \in ScanTime, Webhook(t)
      PROVE  ClockInv'
  <2>1. logs \union {t} \subseteq scanned
    BY <1>3 DEF Webhook
  <2> QED
    BY <1>3, <2>1, ProcessKeeps DEF Webhook
<1>4. ASSUME NEW answers \in BOOLEAN, Reconcile(answers)
      PROVE  ClockInv'
  <2> DEFINE L == IF answers THEN logs \union scanned ELSE logs
  <2>1. L \subseteq scanned
    OBVIOUS
  <2>2. Process(L) /\ UNCHANGED <<scanned, closed>>
    BY <1>4 DEF Reconcile
  <2> HIDE DEF L
  <2> QED
    BY <2>1, <2>2, ProcessKeeps
<1>5. ASSUME NEW i \in 1..Lessons, CloseLesson(i)
      PROVE  ClockInv'
  <2>1. closed' = closed \union {i} /\ UNCHANGED <<scanned, logs, matched, mark>>
    BY <1>5 DEF CloseLesson
  <2> QED
    BY <2>1 DEF MarksExplained, OpenSessions
<1>6. ASSUME NEW i \in 1..Lessons, NEW present \in BOOLEAN, MarkByHand(i, present)
      PROVE  ClockInv'
  <2>1. /\ mark' = [mark EXCEPT ![i] = [present |-> present, late |-> 0, type |-> "manual"]]
        /\ UNCHANGED <<scanned, logs, matched, closed>>
    BY <1>6 DEF MarkByHand
  <2>2. mark' \in [1..Lessons -> ClockMark]
    BY <2>1 DEF ClockMark
  <2>3. \A j \in 1..Lessons : mark'[j].type = "machine" => mark'[j] = mark[j]
    BY <2>1
  <2> QED
    BY <2>1, <2>2, <2>3 DEF MarksExplained, OpenSessions
<1> QED
  BY <1>1, <1>2, <1>3, <1>4, <1>5, <1>6 DEF ClockNext

\* The first state
LEMMA ClockStarts == ClockInit => ClockInv
<1> SUFFICES ASSUME ClockInit PROVE ClockInv
  OBVIOUS
<1>1. ClockTyped
  BY FS_EmptySet DEF ClockInit, ClockTyped, ClockMark
<1>2. MarksExplained
  BY DEF ClockInit, MarksExplained, OpenSessions
<1> QED
  BY <1>1, <1>2 DEF ClockInv

\* A second scan changes no mark.
LEMMA SecondScanMatches ==
  ASSUME ClockInv, NEW t \in Filtered(logs), NEW u \in ScanTime, u > t, u - t < 5
  PROVE  Match(OpenSessions, logs \union {u}) = Match(OpenSessions, logs)
<1> DEFINE S == OpenSessions
           M == logs \union {u}
<1>1. S \subseteq 1..Lessons
  BY DEF OpenSessions
<1>2. IsFiniteSet(logs) /\ logs \subseteq Nat /\ u \in Nat /\ IsFiniteSet(M) /\ M \subseteq Nat
  BY ClockConstants, FS_Subset, FS_AddElement DEF ClockInv, ClockTyped
<1>3. Filtered(M) = Filtered(logs)
  BY <1>2, SecondScan
<1> HIDE DEF S, M
<1> DEFINE K == Filtered(logs)
           h(k) == CHOOSE g : Matches(S, k, g)
<1>4. Match(S, logs) = Marks(S, K, h(K)[K])
  BY DEF Match, InOrder, MapThenFoldSet, Matches, Marks, MadeUp
<1>5. Match(S, M) = Marks(S, Filtered(M), h(Filtered(M))[Filtered(M)])
  BY DEF Match, InOrder, MapThenFoldSet, Matches, Marks, MadeUp
<1> QED
  BY <1>3, <1>4, <1>5 DEF S, M

\* Attendance by clock has a scan, for any lessons and times, whatever is delivered late,
\* again or never, and a second scan changes nothing.
THEOREM PresenceScanned == ClockSpec => []PresentHasScan
<1>1. ClockInv /\ [ClockNext]_clockVars => ClockInv'
  BY ClockKeeps
<1>2. ClockInv => PresentHasScan
  BY SecondScanMatches DEF PresentHasScan, ClockInv, MarksExplained
<1> QED
  BY ClockStarts, <1>1, <1>2, PTL DEF ClockSpec
=============================================================================
