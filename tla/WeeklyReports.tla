---------------------------- MODULE WeeklyReports ----------------------------
(***************************************************************************)
(* The weekly report of a student: teachers mark and evaluate lessons, the *)
(* report reads attendance and evaluations and computes a study quality    *)
(* index (SQI) from this week's lessons and the week before.  Points are   *)
(* kept as whole numbers: with n lessons, ten times n times the points the *)
(* program computes in floating point.                                     *)
(***************************************************************************)
EXTENDS Integers, Sequences, FiniteSets, Sums

CONSTANTS
  ThisWeek, \* lessons of the week reported
  LastWeek, \* lessons of the week before
  Marks,    \* evaluations a teacher sends; criteria left out are Unset
  Peers,    \* sequence of the classmates' indexes, in tenths; Unset without lessons
  OldScore, \* marks a teacher writes to the older column of attendance
  Unset     \* undefined, NULL, or no row

\* A mark out of ten, in tenths, or none
EvaluationScore == 0..100 \union {Unset}

HomeworkStatus == {"completed", "incomplete", "not_done"}
ParticipationStatus == {"active", "passive"}
UnderstandingStatus == {"understood", "not_understood"}

\* A row of student_session_evaluations
Evaluation ==
  [homework : HomeworkStatus, participation : ParticipationStatus,
   understanding : UnderstandingStatus, tags : SUBSET STRING, score : EvaluationScore]

\* Requests with other marks or criteria are refused.
ASSUME WeekConstants ==
  /\ IsFiniteSet(ThisWeek) /\ IsFiniteSet(LastWeek)
  /\ Unset \notin Int
  /\ Marks \subseteq
       [homework : HomeworkStatus \union {Unset},
        participation : ParticipationStatus \union {Unset},
        understanding : UnderstandingStatus \union {Unset}, tags : (SUBSET STRING) \union {Unset},
        score : EvaluationScore]
  /\ OldScore \subseteq EvaluationScore
  /\ Peers \in Seq(Int \union {Unset})

VARIABLES
  taught,  \* lessons whose session is Completed or In-Progress
  seen,    \* attendance of the lessons: Unset, "absent", "late" or "present"
  oldScore, \* student_attendance.evaluation_score
  evaluated, \* row of student_session_evaluations
  longYear \* this is the first week of a year, and the last year had 53

reportWeekVars == <<taught, seen, oldScore, evaluated, longYear>>

Taught == ThisWeek \union LastWeek

\* Rows of attendance are there, absent, before the lesson.
WeekInit ==
  /\ taught \in {{}, LastWeek}
  /\ seen \in {[l \in Taught |-> "absent"],
               [l \in Taught |-> IF l \in LastWeek THEN "present" ELSE "absent"]}
  /\ oldScore = [l \in Taught |-> Unset]
  /\ evaluated = [l \in Taught |-> Unset]
  /\ longYear \in BOOLEAN

-----------------------------------------------------------------------------
(* Teachers.                                                                *)

HoldClass(l) ==
  /\ l \notin taught
  /\ taught' = taught \union {l}
  /\ UNCHANGED <<seen, oldScore, evaluated, longYear>>

Mark(l, state) ==
  /\ seen[l] # state
  /\ seen' = [seen EXCEPT ![l] = state]
  /\ UNCHANGED <<taught, oldScore, evaluated, longYear>>

\* class.controller's saveEvaluations knows only the older column.
MarkScore(l, score) ==
  /\ oldScore' = [oldScore EXCEPT ![l] = score]
  /\ UNCHANGED <<taught, seen, evaluated, longYear>>

Given(new, otherwise) == IF new = Unset THEN otherwise ELSE new

\* A new row has defaults; a row there keeps what the request leaves out,
\* except for the score.
Upsert(row, m) ==
  LET old == IF row # Unset THEN row
             ELSE [homework |-> "completed", participation |-> "active",
                   understanding |-> "understood", tags |-> {}, score |-> Unset]
  IN [homework |-> Given(m.homework, old.homework),
      participation |-> Given(m.participation, old.participation),
      understanding |-> Given(m.understanding, old.understanding),
      tags |-> Given(m.tags, old.tags),
      score |-> m.score]

\* The evaluation is saved, then the score copied to the attendance row.
SaveEvaluation(l, m) ==
  /\ evaluated' = [evaluated EXCEPT ![l] = Upsert(@, m)]
  /\ oldScore' = [oldScore EXCEPT ![l] = m.score]
  /\ UNCHANGED <<taught, seen, longYear>>

-----------------------------------------------------------------------------
(* What a report reads.                                                     *)

\* getWeeklySessions: lessons to come do not count before somebody marked or
\* evaluated them; what is not evaluated follows the attendance.
Input(l) ==
  LET here == seen[l] \in {"late", "present"}
      ev == evaluated[l]
  IN [counts |-> l \in taught \/ ev # Unset \/ here,
      present |-> here, late |-> seen[l] = "late",
      homework |-> IF ev # Unset THEN ev.homework ELSE IF here THEN "completed" ELSE "not_done",
      participation |-> IF ev # Unset THEN ev.participation ELSE IF here THEN "active" ELSE "passive",
      understanding |-> IF ev # Unset THEN ev.understanding
                        ELSE IF here THEN "understood" ELSE "not_understood",
      tags |-> IF ev # Unset THEN ev.tags ELSE {},
      score |-> IF ev # Unset /\ ev.score # Unset THEN ev.score ELSE oldScore[l]]

\* The week before week 1 is week 52, even where the last year had 53.
Inputs ==
  [l \in Taught |-> IF longYear /\ l \in LastWeek THEN [Input(l) EXCEPT !.counts = FALSE]
                    ELSE Input(l)]

-----------------------------------------------------------------------------
(* The index of the lessons L, whose inputs are I.                          *)

PointsOf(I, L, points(_)) == Sum(L, [l \in L |-> points(I[l])])

AttendancePoints(i) == IF i.present THEN IF i.late THEN 70 ELSE 100 ELSE 0

\* Mutant: homework not done counts as done.
HomeworkPoints_Done(i) == IF i.homework = "incomplete" THEN 50 ELSE 100

HomeworkPoints(i) ==
  IF i.homework = "completed" THEN 100 ELSE IF i.homework = "incomplete" THEN 50 ELSE 0

AttitudePoints(i) == IF i.participation = "active" THEN 100 ELSE 60

CompetencyPoints(i) == IF i.understanding = "understood" THEN 150 ELSE 0

\* A mark out of ten, else what was understood
AcademicPoints(i) ==
  IF i.score # Unset THEN 3 * i.score ELSE IF i.understanding = "understood" THEN 255 ELSE 150

Violations(i) == Cardinality(i.tags \intersect {"talkative", "phone", "distracted"})

\* Five points a week, less one for every violation
BehaviorPoints(I, L) ==
  LET v == PointsOf(I, L, Violations) IN 10 * Cardinality(L) * (IF v < 5 THEN 5 - v ELSE 0)

\* 80 points at most
Base(I, L) ==
  BehaviorPoints(I, L) +
  PointsOf(I, L, LAMBDA i : AttendancePoints(i) + HomeworkPoints(i) + AttitudePoints(i)
                              + CompetencyPoints(i) + AcademicPoints(i))

\* delta = base / 80 * 100 - previous index, against 2.5, -2.5 and -7
Progress(n, base, previous) ==
  LET delta == 5 * base - 4 * n * previous
  IN IF previous = Unset \/ (delta >= -100 * n /\ delta < 100 * n) THEN 16
     ELSE IF delta >= 100 * n THEN 20
     ELSE IF delta >= -280 * n THEN 12 ELSE 8

\* In tenths, rounded half up; Unset without lessons
Sqi(I, L, previous) ==
  LET n == Cardinality(L)
      base == Base(I, L)
  IN IF L = {} THEN Unset
     ELSE (2 * (base + 10 * n * Progress(n, base, previous)) + n) \div (2 * n)

Week(I, W) == {l \in W : I[l].counts}

\* The index of the week before is computed as if there was none before it.
WeeklySqi(I) == Sqi(I, Week(I, ThisWeek), Sqi(I, Week(I, LastWeek), Unset))

SqiLevel(sqi) ==
  IF sqi >= 900 THEN 5 ELSE IF sqi >= 750 THEN 4 ELSE IF sqi >= 600 THEN 3
  ELSE IF sqi >= 450 THEN 2 ELSE 1

-----------------------------------------------------------------------------
(* What the reports show.                                                   *)

\* sum / n, rounded half up
Mean(sum, n) == (2 * sum + n) \div (2 * n)

\* The mark, else 8 or 5.5
SubjectPoints(i) ==
  IF i.score # Unset THEN i.score ELSE IF i.understanding = "understood" THEN 80 ELSE 55

\* All lessons are of one subject.
SubjectScore(I, L) ==
  IF L = {} THEN Unset ELSE Mean(PointsOf(I, L, SubjectPoints), Cardinality(L))

SubjectTrend(I) ==
  LET now == SubjectScore(I, Week(I, ThisWeek))
      before == SubjectScore(I, Week(I, LastWeek))
  IN IF before = Unset THEN "new"
     ELSE IF now - before > 1 THEN "up" ELSE IF now - before < -1 THEN "down" ELSE "stable"

Here(I, L) == {l \in L : I[l].present}
HomeworkDone(I, L) == {l \in L : I[l].homework = "completed"}
Understood(I, L) == {l \in L : I[l].understanding = "understood"}
Active(I, L) == {l \in L : I[l].participation = "active"}

\* synthesizePedagogicalContent: the sentences it chooses
Overview(sqi) == IF sqi >= 850 THEN 3 ELSE IF sqi >= 700 THEN 2 ELSE 1

Strengths(I, L) ==
  {x \in {"understands", "active", "homework"} :
     CASE x = "understands" -> Understood(I, L) # {}
       [] x = "active" -> Active(I, L) # {}
       [] OTHER -> HomeworkDone(I, L) = L}

Improvements(I, L) ==
  {x \in {"homework", "absent", "review"} :
     CASE x = "homework" -> HomeworkDone(I, L) # L
       [] x = "absent" -> Here(I, L) # L
       [] OTHER -> Understood(I, L) # L}

\* GetWeeklyStudentReportUseCase, of a week with lessons
WeeklyReport(I) ==
  LET L == Week(I, ThisWeek)
      sqi == WeeklySqi(I)
  IN [sqi |-> sqi, level |-> SqiLevel(sqi), subject |-> SubjectScore(I, L),
      trend |-> SubjectTrend(I), overview |-> Overview(sqi),
      strengths |-> Strengths(I, L), improvements |-> Improvements(I, L)]

Percent(part, whole) ==
  IF whole = {} THEN 0 ELSE Mean(100 * Cardinality(part), Cardinality(whole))

\* GetClassWeeklyReportsUseCase: the student among the classmates
ClassReport(I) ==
  LET indexes == Append(Peers, WeeklySqi(I))
      V == {k \in DOMAIN indexes : indexes[k] # Unset}
      L == Week(I, ThisWeek)
  IN [average |-> IF V = {} THEN 0
                  ELSE Mean(Sum(V, indexes), Cardinality(V)),
      students |-> [level \in 1..5 |-> Cardinality({k \in V : SqiLevel(indexes[k]) = level})],
      attendance |-> Percent(Here(I, L), L),
      homework |-> Percent(HomeworkDone(I, L), L)]

-----------------------------------------------------------------------------
WeekNext ==
  \E l \in Taught :
    \/ HoldClass(l)
    \/ \E state \in {"absent", "late", "present"} : Mark(l, state)
    \/ l \in ThisWeek /\ \E score \in OldScore : MarkScore(l, score)
    \/ l \in ThisWeek /\ \E m \in Marks : SaveEvaluation(l, m)

WeekSpec == WeekInit /\ [][WeekNext]_reportWeekVars

-----------------------------------------------------------------------------
Worth(x) ==
  CASE x \in {"completed", "active", "understood"} -> 2
    [] x = "incomplete" -> 1
    [] OTHER -> 0

AtLeast(new, old) ==
  /\ AttendancePoints(new) >= AttendancePoints(old)
  /\ Worth(new.homework) >= Worth(old.homework)
  /\ Worth(new.participation) >= Worth(old.participation)
  /\ Worth(new.understanding) >= Worth(old.understanding)
  /\ new.tags \subseteq old.tags
  /\ (new.score = Unset) = (old.score = Unset)
  /\ new.score # Unset => new.score >= old.score

\* b is no worse a report of the student than a, c of the class no worse than d.
NoWorse(b, a) ==
  /\ b.sqi >= a.sqi /\ b.level >= a.level /\ b.overview >= a.overview
  /\ b.subject >= a.subject
  /\ a.trend = "up" => b.trend = "up"
  /\ b.trend = "down" => a.trend = "down"
  /\ a.strengths \subseteq b.strengths /\ b.improvements \subseteq a.improvements

NoWorseClass(c, d) ==
  /\ c.average >= d.average
  /\ c.attendance >= d.attendance /\ c.homework >= d.homework
  /\ \A k \in 1..5 : Sum(k..5, c.students) >= Sum(k..5, d.students)

\* A change that makes a lesson of the week better, or leaves it as it was, in
\* every respect and adds no lesson never lowers the index, its level, the
\* subject's score or trend, the rates or the class average, never drops a
\* strength and never adds something to improve, whatever last week was like; a
\* change that makes a lesson of last week worse neither.  The index stays
\* between 0 and 100: the entity of the report refuses others.
BetterLessonHelps ==
  [][LET old == Inputs
         new == Inputs'
         same(W) == Week(new, W) = Week(old, W)
     IN (/\ new # old /\ Week(old, ThisWeek) # {} /\ same(ThisWeek) /\ same(LastWeek)
         /\ \A l \in Week(old, ThisWeek) : AtLeast(new[l], old[l])
         /\ \A l \in Week(old, LastWeek) : AtLeast(old[l], new[l]))
        => /\ WeeklySqi(new) \in 0..1000
           /\ NoWorse(WeeklyReport(new), WeeklyReport(old))
           /\ NoWorseClass(ClassReport(new), ClassReport(old))]_reportWeekVars
=============================================================================
