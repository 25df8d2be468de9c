---------------------------- MODULE MonthlyBills ----------------------------
(***************************************************************************)
(* The older screens that settle a whole month: monthly-bills and          *)
(* monthly-wages.  Two controllers hold the same code, one for students    *)
(* and one for teachers; a slip is a monthly bill of the one or a monthly  *)
(* wage of the other.  Requests run one after another.                     *)
(***************************************************************************)
EXTENDS Integers, FiniteSets, Sums

CONSTANTS
  Payee,      \* students, or teachers
  Lecture,    \* classes
  LessonDay,  \* dates, 1..n
  SlipMonth,  \* months, 1..n
  MonthOf,    \* month of a date
  Tariff,     \* prices of a lesson, by date, to choose from
  OldSlips,   \* tables from before slips had dates
  HeldLesson, \* lessons that may be locked: whom they count for, class, date, was he there
  GivenDates, \* dates a request may give
  MaxSlips,   \* the bound on rows
  Unknown     \* NULL

ASSUME MonthConstants ==
  /\ LessonDay \subseteq Nat /\ SlipMonth \subseteq Nat /\ 1 \in LessonDay
  /\ MonthOf \in [LessonDay -> SlipMonth]
  /\ \A d, e \in LessonDay : d <= e => MonthOf[d] <= MonthOf[e]
  /\ \A m \in SlipMonth : \E d \in LessonDay : MonthOf[d] = m
  /\ \E last \in LessonDay : \A d \in LessonDay : d <= last
  /\ Unknown \notin Nat
  /\ Tariff \subseteq [LessonDay -> Int] /\ IsFiniteSet(HeldLesson)
  /\ HeldLesson \subseteq [who : Payee, class : Lecture, day : LessonDay, there : BOOLEAN]
  \* Such a row has no dates, and was the only one (UQ_student_month, UQ_teacher_month).
  /\ \A S \in OldSlips : \A v, w \in S :
       /\ w.who \in Payee /\ w.month \in SlipMonth /\ w.to = Unknown /\ ~w.period /\ w.lessons = {} /\ ~w.flat
       /\ \A i \in w.items : i.rate \in Int
       /\ v.who = w.who /\ v.month = w.month => v = w

VARIABLES
  clock,     \* today
  tariff,    \* price in force of a lesson, by date
  given,     \* locked lessons
  slip,      \* student_monthly_bills or teacher_monthly_wages with their items
  orderly    \* has this screen settled the months in their order, on its own dates?

monthVars == <<clock, tariff, given, slip, orderly>>

FirstOf(m) == Min({d \in LessonDay : MonthOf[d] = m})
LastOf(m) == Max({d \in LessonDay : MonthOf[d] = m})

MonthInit ==
  /\ clock = 1 /\ tariff \in Tariff /\ given = {}
  /\ slip \in OldSlips /\ orderly = TRUE

-----------------------------------------------------------------------------
(* The dates a month is settled for.                                        *)

RowsOf(m) == {w \in slip : w.month = m}
Dates(w) == [from |-> w.from, to |-> w.to]

\* Mutant: the wave starts on the last date that was settled.
DayAfter_Same(d) == d

DayAfter(d) == d + 1

\* From the day after the latest date settled before the end, for whomever and
\* in whichever month, or else from the first of the month
NewWave(m, end) ==
  LET settled == {w.to : w \in {v \in slip : v.to # Unknown /\ v.to < end}}
  IN [from |-> IF settled = {} THEN FirstOf(m) ELSE DayAfter(Max(settled)), to |-> end]

\* Up to today in the current month, to its end in any other
EndOf(m) == IF MonthOf[clock] = m THEN clock ELSE LastOf(m)

\* payMonthlyBill, payMonthlyWage without dates: one row of the month, whichever
\* comes first, has the dates unless it is an old one.
PayWaves(m) ==
  {Dates(w) : w \in {v \in RowsOf(m) : v.to # Unknown}}
  \union IF RowsOf(m) # {} /\ \A w \in RowsOf(m) : w.to # Unknown THEN {} ELSE {NewWave(m, EndOf(m))}

-----------------------------------------------------------------------------
(* calculateStudentBillingItems, calculateTeacherWageItems.                 *)

LessonsIn(p, wave) == {l \in given : l.who = p /\ l.day \in wave.from..wave.to}

\* Mutant: lessons are counted at the price in force.
KeptRates_None(p, c, m) == {}

\* Rates of the payee's items for the class and month, of several rows too
KeptRates(p, c, m) ==
  {i.rate : i \in UNION {{j \in w.items : j.class = c} : w \in {v \in RowsOf(m) : v.who = p}}}

\* The rate of a lesson by class and date: of several kept rates the one read
\* last, and the price in force if there is none
Rates(p) ==
  LET Keys == Lecture \X SlipMonth
      Kept == [k \in Keys |-> KeptRates(p, k[1], k[2])]
      Key(x) == <<x[1], MonthOf[x[2]]>>
  IN {[x \in Lecture \X LessonDay |-> IF Kept[Key(x)] = {} THEN tariff[x[2]] ELSE last[Key(x)]] :
       last \in {f \in [Keys -> {0} \union UNION {Kept[k] : k \in Keys}] :
                   \A k \in Keys : f[k] \in Kept[k] \/ (Kept[k] = {} /\ f[k] = 0)}}

\* CalculateStudentTuitionUseCase, CalculateTeacherWageUseCase
LessonAmount(l, rate) == IF l.there THEN rate[<<l.class, l.day>>] ELSE 0

Amount(L, rate) == Sum(L, [l \in L |-> LessonAmount(l, rate)])

InLecture(L, c) == {l \in L : l.class = c}

\* An item per class with a lesson that counts, at the rate of its last lesson
ItemOf(L, rate, c) ==
  [class |-> c, total |-> Amount(InLecture(L, c), rate),
   rate |-> rate[<<c, Max({l.day : l \in InLecture(L, c)})>>]]

ItemsAt(L, rate) == {ItemOf(L, rate, c) : c \in {l.class : l \in {k \in L : k.there}}}

\* One price for the lessons of a class, all of month m
Flat(L, rate, m) ==
  /\ \A l \in L : MonthOf[l.day] = m
  /\ \A l, k \in L : l.class = k.class => rate[<<l.class, l.day>>] = rate[<<k.class, k.day>>]

Slips(p, m, wave) ==
  LET L == LessonsIn(p, wave)
  IN {[who |-> p, month |-> m, from |-> wave.from, to |-> wave.to, period |-> FALSE,
       items |-> ItemsAt(L, rate), total |-> Amount(L, rate),
       lessons |-> L, flat |-> Flat(L, rate, m)] : rate \in Rates(p)}

-----------------------------------------------------------------------------
(* Requests.                                                                *)

\* payMonthlyBill, payMonthlyWage with status Paid: one row of the payee and the
\* month is replaced, unless it belongs to a period; one is made if there is none.
Settle(p, m, wave) ==
  LET own == {w \in RowsOf(m) : w.who = p}
  IN /\ own = {} => Cardinality(slip) < MaxSlips
     /\ \E old \in IF own = {} THEN {{}} ELSE {{w} : w \in {v \in own : ~v.period}} :
          \E new \in Slips(p, m, wave) : slip' = (slip \ old) \union {new}
     /\ UNCHANGED <<clock, tariff, given>>

PayMonth(p, m) ==
  /\ \E wave \in PayWaves(m) : Settle(p, m, wave)
  /\ orderly' = (orderly /\ \A w \in slip : w.month <= m /\ ~w.period)

\* The dates came with the request.
PayDates(p, m, wave) == Settle(p, m, wave) /\ orderly' = FALSE

\* Status Unpaid removes the row.  No lesson points to it: lessons point to the
\* rows of periods only, and those are refused.
WithdrawMonth(p, m) ==
  \E w \in RowsOf(m) :
    /\ w.who = p /\ ~w.period
    /\ slip' = slip \ {w}
    /\ UNCHANGED <<clock, tariff, given, orderly>>

\* A period of the month settles some of the payee's lessons, an item for each
\* class and price (LessonBilling says which).
BillInPeriod(p, m, L) ==
  /\ Cardinality(slip) < MaxSlips /\ L # {} /\ \A l \in L : l \in given /\ l.who = p
  /\ LET price == [k \in Lecture \X LessonDay |-> tariff[k[2]]]
         At(c, r) == {l \in L : l.class = c /\ tariff[l.day] = r}
     IN slip' = slip \union
          {[who |-> p, month |-> m, from |-> FirstOf(m), to |-> LastOf(m), period |-> TRUE,
            items |-> {[class |-> l.class, rate |-> tariff[l.day],
                        total |-> Amount(At(l.class, tariff[l.day]), price)] : l \in L},
            total |-> Amount(L, price), lessons |-> L, flat |-> FALSE]}
  /\ UNCHANGED <<clock, tariff, given, orderly>>

\* A lesson of the past is locked.
LockLesson(l) ==
  /\ l.day <= clock /\ l \notin given
  /\ given' = given \union {l}
  /\ UNCHANGED <<clock, tariff, slip, orderly>>

\* The price of dates whose lessons no period has billed may change.
ChangeTariff(new) ==
  /\ new # tariff
  /\ \A w \in slip : w.period => \A l \in w.lessons : new[l.day] = tariff[l.day]
  /\ tariff' = new
  /\ UNCHANGED <<clock, given, slip, orderly>>

NextDate ==
  /\ clock + 1 \in LessonDay
  /\ clock' = clock + 1
  /\ UNCHANGED <<tariff, given, slip, orderly>>

MonthNext ==
  \/ \E p \in Payee, m \in SlipMonth :
       \/ PayMonth(p, m) \/ WithdrawMonth(p, m)
       \/ \E wave \in GivenDates : PayDates(p, m, wave)
       \/ \E L \in SUBSET given : BillInPeriod(p, m, L)
  \/ \E l \in HeldLesson : LockLesson(l)
  \/ \E new \in Tariff : ChangeTariff(new)
  \/ NextDate

MonthSpec == MonthInit /\ [][MonthNext]_monthVars

-----------------------------------------------------------------------------
(* What the screens show.                                                   *)

\* getMonthlyBills, getMonthlyWages: the row of a payee (of several, the last one
\* read), and a draft of the others
Listed(p, m) ==
  LET own == {w \in RowsOf(m) : w.who = p}
  IN IF own # {} THEN {w.total : w \in own}
     ELSE UNION {{w.total : w \in Slips(p, m, wave)} : wave \in PayWaves(m)}

\* getTuitionReport, getWagesReport: lesson by lesson
Reported(p, from, to) ==
  {Amount(LessonsIn(p, [from |-> from, to |-> to]), rate) : rate \in Rates(p)}

\* getTuitionBulk, getWagesBulk: the totals of the classes of every payee
Bulk(from, to) ==
  [p \in Payee |->
     LET L == LessonsIn(p, [from |-> from, to |-> to])
         Classes == {l.class : l \in L}
     IN {Sum(Classes, [c \in Classes |-> Amount(InLecture(L, c), rate)]) : rate \in Rates(p)}]

\* getWagesHistory: the rows themselves, with their items
History(p) == {w \in slip : w.who = p}

-----------------------------------------------------------------------------
\* Months settled in order on the dates the screen finds are settled once: no
\* lesson is on two rows of a payee, although nothing marks it as settled.
MonthsDoNotOverlap ==
  orderly =>
    \A v, w \in slip : v # w /\ v.who = w.who /\ ~v.period /\ ~w.period => v.lessons \cap w.lessons = {}

\* A row keeps its amount in the list, in every report, summed by lesson or by
\* class, and in the items the history shows, whatever the price becomes, while no
\* lesson is added to its dates - if the lessons of a class had one price, and no
\* other row of the payee is for the month.
SettledAmountKept ==
  \A w \in slip :
    w.flat /\ w.lessons = LessonsIn(w.who, Dates(w)) /\ {v \in RowsOf(w.month) : v.who = w.who} = {w}
      => /\ Reported(w.who, w.from, w.to) \union Listed(w.who, w.month) = {w.total}
         /\ Bulk(w.from, w.to)[w.who] = {w.total}
         /\ \A v \in History(w.who) : v.month = w.month =>
              Sum(v.items, [i \in v.items |-> i.total]) = v.total
=============================================================================
