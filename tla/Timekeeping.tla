----------------------------- MODULE Timekeeping -----------------------------
(***************************************************************************)
(* One student, one day: the terminal's scans, the log rows they become by *)
(* webhook or by reconciliation, and the attendance that TimekeepingMatcher *)
(* derives from all log rows each time.  Deliveries are late, repeated,    *)
(* reordered or lost; they are processed one after another.  Times are     *)
(* minutes of the day.                                                     *)
(***************************************************************************)
EXTENDS Integers, FiniteSets, Sums

CONSTANTS
  Lessons, \* number of lessons of the day, in order of their start
  Start, End, \* minutes by lesson
  ScanTime, \* minutes at which the student may scan
  MaxScans \* the bound on scans

ASSUME ClockConstants ==
  /\ Lessons \in Nat /\ ScanTime \subseteq Nat
  /\ \A i \in 1..Lessons : Start[i] \in Nat /\ End[i] \in Nat /\ Start[i] < End[i]

VARIABLES
  scanned,  \* scans the terminal recorded
  logs,     \* timekeeping_logs by event time
  matched,  \* timekeeping_logs.matched_sessions
  mark,     \* student_attendance by lesson
  closed    \* lessons completed or locked

clockVars == <<scanned, logs, matched, mark, closed>>

ClockMark ==
  [present : BOOLEAN, late : Nat, type : {"none", "machine", "manual"}]

ClockInit ==
  /\ scanned = {} /\ logs = {} /\ closed = {}
  /\ matched = [t \in ScanTime |-> {}]
  /\ mark = [i \in 1..Lessons |-> [present |-> FALSE, late |-> 0, type |-> "none"]]

-----------------------------------------------------------------------------
(* TimekeepingMatcher.match over the open lessons S and the scans L.        *)

\* Scans within five minutes of the last one kept are dropped.
Keep(kept, t) == kept = {} \/ t - Max(kept) >= 5

\* Scans are taken from the earliest to the latest.
Filtered(L) ==
  InOrder(LAMBDA t, kept : IF Keep(kept, t) THEN kept \union {t} ELSE kept, {}, L)

Following(S, i) == {j \in S : j > i /\ \A k \in S : k > i => j <= k}

\* Mutant: the next lesson of the day is always a consecutive one.
Consecutive_Always(S, i) == Following(S, i)

\* The next lesson if it starts within an hour of the end of lesson i
Consecutive(S, i) == {j \in Following(S, i) : Start[j] - End[i] \in 0..60}

NoShow == [present |-> FALSE, late |-> 0, in |-> -1, out |-> -1]

ChecksIn(r, i, t) == ~r[i].present /\ t >= Start[i] - 60 /\ t <= End[i]

MayLeave(r, i, t) ==
  r[i].present /\ r[i].out = -1 /\ t >= Start[i] /\ t <= End[i] + 60

\* Leaves between two consecutive lessons, in the middle, or at the end
LeavesBetween(r, S, i, t) ==
  MayLeave(r, i, t) /\ \E j \in Consecutive(S, i) : t >= End[i] - 15 /\ t <= Start[j] + 15

LeavesEarly(r, i, t) == MayLeave(r, i, t) /\ t > Start[i] + 15 /\ t < End[i] - 15

LeavesAfter(r, i, t) == MayLeave(r, i, t) /\ r[i].in # -1 /\ t > r[i].in + 10

\* Being present carries over to a consecutive lesson.
CheckIn(r, S, i, t) ==
  [j \in S |->
     IF j = i THEN [r[i] EXCEPT !.present = TRUE, !.in = t,
                                !.late = IF t > Start[i] THEN t - Start[i] ELSE 0]
     ELSE IF j \in Consecutive(S, i) /\ ~r[j].present
          THEN [r[j] EXCEPT !.present = TRUE, !.in = t]
     ELSE r[j]]

\* ... and leaving early or between them takes it back.
CheckOut(r, S, i, t) ==
  [j \in S |->
     IF j = i THEN [r[i] EXCEPT !.out = t]
     ELSE IF j \in Consecutive(S, i) /\ (LeavesBetween(r, S, i, t) \/ LeavesEarly(r, i, t))
          THEN [r[j] EXCEPT !.present = FALSE, !.in = -1]
     ELSE r[j]]

\* The first lesson that can use the scan takes it.
Take(r, S, t) ==
  LET Uses(i) == \/ ChecksIn(r, i, t) \/ LeavesBetween(r, S, i, t)
                 \/ LeavesEarly(r, i, t) \/ LeavesAfter(r, i, t)
      users == {i \in S : Uses(i)}
      i == CHOOSE i \in users : \A j \in users : i <= j
  IN IF users = {} THEN r
     ELSE IF ChecksIn(r, i, t) THEN CheckIn(r, S, i, t) ELSE CheckOut(r, S, i, t)

\* A scan within the hour after a lesson makes up for a missing check-in.
Match(S, L) ==
  LET kept == Filtered(L)
      r == InOrder(LAMBDA t, x : Take(x, S, t), [i \in S |-> NoShow], kept)
      Out(i) == \E t \in kept : t >= End[i] /\ t <= End[i] + 60
  IN [i \in S |-> [present |-> r[i].present \/ Out(i), late |-> r[i].late, type |-> "machine"]]

\* matched_sessions: from an hour before the start to an hour after the end
Windows(S, t) == {i \in S : t >= Start[i] - 60 /\ t <= End[i] + 60}

-----------------------------------------------------------------------------
OpenSessions == 1..Lessons \ closed

\* ProcessRawLogUseCase on log rows L: rows of open lessons that the teacher has
\* not marked are written, and every log row gets its lessons.
Process(L) ==
  LET S == OpenSessions
  IN /\ logs' = L
     /\ mark' = [i \in 1..Lessons |->
                   IF i \in S /\ mark[i].type # "manual" THEN Match(S, L)[i] ELSE mark[i]]
     /\ matched' = [t \in ScanTime |-> IF t \in L THEN Windows(S, t) ELSE {}]

Scan(t) ==
  /\ t \notin scanned /\ \A u \in scanned : u < t
  /\ Cardinality(scanned) < MaxScans
  /\ scanned' = scanned \union {t}
  /\ UNCHANGED <<logs, matched, mark, closed>>

\* The webhook of a scan arrives, sooner or later, once, repeatedly or never.
Webhook(t) ==
  /\ t \in scanned
  /\ Process(logs \union {t})
  /\ UNCHANGED <<scanned, closed>>

\* ReconcileTimekeepingLogsUseCase: the stored rows again, then those of the
\* terminal if it answers.
Reconcile(answers) ==
  /\ answers \/ logs # {}
  /\ Process(IF answers THEN logs \union scanned ELSE logs)
  /\ UNCHANGED <<scanned, closed>>

\* The teacher marks the student, or the lesson is completed.
MarkByHand(i, present) ==
  /\ i \notin closed
  /\ mark' = [mark EXCEPT ![i] = [present |-> present, late |-> 0, type |-> "manual"]]
  /\ UNCHANGED <<scanned, logs, matched, closed>>

CloseLesson(i) ==
  /\ i \notin closed
  /\ closed' = closed \union {i}
  /\ UNCHANGED <<scanned, logs, matched, mark>>

ClockNext ==
  \/ \E t \in ScanTime : Scan(t) \/ Webhook(t)
  \/ \E answers \in BOOLEAN : Reconcile(answers)
  \/ \E i \in 1..Lessons :
       CloseLesson(i) \/ \E present \in BOOLEAN : MarkByHand(i, present)

ClockSpec == ClockInit /\ [][ClockNext]_clockVars

-----------------------------------------------------------------------------
\* Attendance by clock is explained by a log row that names the lesson or one it
\* follows within the hour: carrying over and making up never mark a student who
\* was not there.  A second scan within five minutes changes nothing, whenever it
\* is processed.
PresentHasScan ==
  /\ \A i \in OpenSessions :
       mark[i].type = "machine" /\ mark[i].present =>
         \E j \in 1..i : /\ j = i \/ Start[i] - End[j] \in 0..60
                         /\ \E t \in logs : j \in matched[t]
  /\ \A t \in Filtered(logs) : \A u \in ScanTime :
       u > t /\ u - t < 5 => Match(OpenSessions, logs \union {u}) = Match(OpenSessions, logs)
=============================================================================
