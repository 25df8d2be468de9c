------------------------------- MODULE Reports -------------------------------
(***************************************************************************)
(* The reports an administrator compares: the same money and lessons,      *)
(* joined and grouped in different ways.  The tables grow as lessons are   *)
(* given, billed and paid; every report is a query on them.                *)
(***************************************************************************)
EXTENDS SequencesExt, Integers, Sequences, FiniteSets, Sums

CONSTANTS
  Learner, \* students
  Group,   \* classes
  CenterOf, \* center of a class
  Month,
  Fee,     \* prices of a lesson by class
  Enrolled, \* class_students.status before the first lesson
  Extra,   \* amounts added when a bill is adjusted, 0 for none
  WageTables, \* wages: sequences of [teacher, type, month, paid, items]; an item
              \* has a class or None, a role or None and an amount
  None,    \* NULL
  MaxRows  \* the bound on attendance rows, and on bills

WageRow ==
  [teacher : STRING, type : STRING, month : Month, paid : BOOLEAN,
   items : Seq([class : Group \union {None}, role : {"teacher", "assistant", None}, amount : Int])]

ASSUME ReportConstants ==
  /\ IsFiniteSet(Learner) /\ IsFiniteSet(Group) /\ IsFiniteSet(Month)
  /\ Month \subseteq Int /\ None \notin Month /\ None \notin Group
  /\ \A c \in Group : CenterOf[c] # None /\ Fee[c] \subseteq Int
  /\ Extra \subseteq Int
  /\ WageTables \subseteq Seq(WageRow)

VARIABLES
  member,  \* class_students.status by student and class, None without a row
  fee,     \* price of a lesson in force
  lesson,  \* student_attendance of held lessons
  bill,    \* student_monthly_bills with their items
  wage     \* teacher_monthly_wages with their items

reportVars == <<member, fee, lesson, bill, wage>>

ReportInit ==
  /\ member \in [Learner -> [Group -> Enrolled]]
  /\ fee \in {f \in [Group -> UNION {Fee[c] : c \in Group}] : \A c \in Group : f[c] \in Fee[c]}
  /\ lesson = <<>> /\ bill = <<>>
  /\ wage \in WageTables

-----------------------------------------------------------------------------
(* What fills the tables.                                                   *)

\* A student who leaves keeps the row.
Join(s, c) ==
  /\ member[s][c] # "Active"
  /\ member' = [member EXCEPT ![s] = [@ EXCEPT ![c] = "Active"]]
  /\ UNCHANGED <<fee, lesson, bill, wage>>

Leave(s, c) ==
  /\ member[s][c] = "Active"
  /\ member' = [member EXCEPT ![s] = [@ EXCEPT ![c] = "Dropped"]]
  /\ UNCHANGED <<fee, lesson, bill, wage>>

\* The price of later lessons and of lessons not billed yet
ChangeFee(c, n) ==
  /\ fee[c] # n
  /\ fee' = [fee EXCEPT ![c] = n]
  /\ UNCHANGED <<member, lesson, bill, wage>>

HoldLesson(s, c, m, present) ==
  /\ Len(lesson) < MaxRows /\ member[s][c] = "Active"
  /\ lesson' = Append(lesson, [student |-> s, class |-> c, month |-> m,
                               present |-> present, bill |-> 0, amount |-> 0])
  /\ UNCHANGED <<member, fee, bill, wage>>

Unbilled(s, m) ==
  {i \in DOMAIN lesson : lesson[i].student = s /\ lesson[i].bill = 0 /\ lesson[i].month <= m}

LessonPrice(i) == IF lesson[i].present THEN fee[lesson[i].class] ELSE 0

\* One item per class and rate
Items(L) ==
  {[class |-> k[1], rate |-> k[2],
    total |-> k[2] * Cardinality({i \in L : <<lesson[i].class, LessonPrice(i)>> = k})] :
     k \in {<<lesson[i].class, LessonPrice(i)>> : i \in L}}

\* A period of month m bills what is unbilled until then; staff may adjust the
\* total, which adds an item of the first item's class.  A second bill of the
\* month is one of a second period.
BillStudent(s, m, extra) ==
  LET L == Unbilled(s, m)
      items == SetToSeq(Items(L))
      total == Sum(Items(L), [k \in Items(L) |-> k.total])
      adjust == IF extra = 0 THEN <<>>
                ELSE <<[class |-> items[1].class, rate |-> extra, total |-> extra]>>
      earlier == {b \in DOMAIN bill : bill[b].student = s /\ bill[b].month = m}
  IN /\ Len(bill) < MaxRows /\ L # {} /\ total + extra >= 0
     /\ bill' = Append(bill, [student |-> s, month |-> m, period |-> <<m, Cardinality(earlier)>>,
                              items |-> items \o adjust, total |-> total + extra,
                              adjusted |-> extra, paid |-> FALSE])
     /\ lesson' = [i \in DOMAIN lesson |->
                     IF i \in L THEN [lesson[i] EXCEPT !.bill = Len(bill) + 1, !.amount = LessonPrice(i)]
                     ELSE lesson[i]]
     /\ UNCHANGED <<member, fee, wage>>

\* A bill is paid in full, or the payment is taken back.
PayBill(b) ==
  /\ bill' = [bill EXCEPT ![b].paid = ~@]
  /\ UNCHANGED <<member, fee, lesson, wage>>

-----------------------------------------------------------------------------
(* Filters: a month or None, a center or None, and classes, {} for all.     *)

NoFilter == [month |-> None, center |-> None, classes |-> {}]

InMonth(f, m) == f.month = None \/ f.month = m

\* c is None where a LEFT JOIN found no class.
InClass(f, c) ==
  /\ f.center = None \/ (c # None /\ CenterOf[c] = f.center)
  /\ f.classes = {} \/ c \in f.classes

\* The classes a student is joined with: every class_students row
RosterRows(s) ==
  LET C == {c \in Group : member[s][c] # None} IN IF C = {} THEN {None} ELSE C

\* ... or the Active ones
ActiveRows(s) ==
  LET C == {c \in Group : member[s][c] = "Active"} IN IF C = {} THEN {None} ELSE C

ItemIds == UNION {{b} \X DOMAIN bill[b].items : b \in DOMAIN bill}
Item(x) == bill[x[1]].items[x[2]]

-----------------------------------------------------------------------------
(* Revenue.                                                                 *)

\* billWhereClause: bills with a row that passes; a bill counts once.
RevenueBills(f) ==
  {b \in DOMAIN bill :
     InMonth(f, bill[b].month) /\ \E c \in RosterRows(bill[b].student) : InClass(f, c)}

Expected(B) == Sum(B, [b \in DOMAIN bill |-> bill[b].total])

\* paid_amount
PaidAmount(b) == IF bill[b].paid THEN bill[b].total ELSE 0
Paid(B) == Sum(B, [b \in DOMAIN bill |-> PaidAmount(b)])

\* getRevenueSummary
RevenueSummary(f) ==
  LET B == RevenueBills(f) IN [expected |-> Expected(B), paid |-> Paid(B)]

\* getRevenueByMonth ignores the month of the filter.
RevenueByMonth(f) ==
  [m \in Month |->
     LET B == {b \in RevenueBills([f EXCEPT !.month = None]) : bill[b].month = m}
     IN [expected |-> Expected(B), paid |-> Paid(B)]]

\* Mutant: an item counts with the total of its bill.
ItemAmount_Bill(x) == bill[x[1]].total

ItemAmount(x) == Item(x).total

\* The part of a payment that goes to an item
ItemPaid(x) ==
  LET b == x[1]
  IN IF bill[b].total > 0 THEN (ItemAmount(x) * PaidAmount(b)) \div bill[b].total ELSE 0

ItemsExpected(X) == Sum(X, [x \in ItemIds |-> ItemAmount(x)])
ItemsPaid(X) == Sum(X, [x \in ItemIds |-> ItemPaid(x)])

\* getRevenueByCenter filters by the items' classes.
RevenueByCenter(f) ==
  [ct \in {CenterOf[c] : c \in Group} |->
     LET X == {x \in ItemIds : /\ InMonth(f, bill[x[1]].month) /\ InClass(f, Item(x).class)
                               /\ CenterOf[Item(x).class] = ct}
     IN [expected |-> ItemsExpected(X), paid |-> ItemsPaid(X)]]

\* getSaleOrdersReport: one row per bill, class and rate, its netAmount
SaleOrders(f) ==
  LET X == {x \in ItemIds : InMonth(f, bill[x[1]].month) /\ InClass(f, Item(x).class)}
      Rows == {<<x[1], Item(x).class, Item(x).rate>> : x \in X}
  IN [r \in Rows |-> Sum({x \in X : r = <<x[1], Item(x).class, Item(x).rate>>},
                         [x \in ItemIds |-> Item(x).total])]

\* getStudentDebtsReport: one row per student and Active class
Debts(f) ==
  LET Bills(s) == {b \in DOMAIN bill : bill[b].student = s /\ InMonth(f, bill[b].month)}
      Rows == {r \in Learner \X (Group \union {None}) :
                 Bills(r[1]) # {} /\ r[2] \in ActiveRows(r[1]) /\ InClass(f, r[2])}
  IN [r \in Rows |-> Expected(Bills(r[1])) - Paid(Bills(r[1]))]

-----------------------------------------------------------------------------
(* The pages of a period, of a student and of the dashboard.                *)

\* aggregateOrders
PeriodStats ==
  [p \in {bill[b].period : b \in DOMAIN bill} |->
     LET B == {b \in DOMAIN bill : bill[b].period = p}
     IN [orders |-> Cardinality(B), paidOrders |-> Cardinality({b \in B : bill[b].paid}),
         expected |-> Expected(B), paid |-> Paid(B)]]

\* The lessons of a bill; an absence shows no amount.
BillLessons(b) ==
  [i \in {j \in DOMAIN lesson : lesson[j].bill = b} |->
     IF lesson[i].present THEN lesson[i].amount ELSE 0]

BillSheet(b) ==
  [total |-> bill[b].total, paid |-> PaidAmount(b), items |-> bill[b].items,
   lessons |-> BillLessons(b)]

\* findPeriodDetails
PeriodSheets(p) == [b \in {x \in DOMAIN bill : bill[x].period = p} |-> BillSheet(b)]

\* getMyTuition
MyTuition(s) == [b \in {x \in DOMAIN bill : bill[x].student = s} |-> BillSheet(b)]

\* getStudentTuitionHistory
TuitionHistory(s) ==
  [b \in {x \in DOMAIN bill : bill[x].student = s} |->
     [total |-> bill[b].total, paid |-> PaidAmount(b), items |-> bill[b].items]]

\* The dashboard's six months to the last one with a bill
DashboardRevenue ==
  LET last == CHOOSE m \in Month : \A b \in DOMAIN bill :
                /\ bill[b].month <= m
                /\ \E x \in DOMAIN bill : bill[x].month = m
      B(m) == {b \in DOMAIN bill : bill[b].month = m}
  IN [m \in {n \in Month : n <= last /\ n > last - 6} |->
        [expected |-> Expected(B(m)),
         paid |-> Expected({b \in B(m) : bill[b].paid})]]

\* GREATEST(0, total_amount - COALESCE(paid_amount, 0)) of the bills not paid
Uncollected(b) ==
  LET open == bill[b].total - PaidAmount(b) IN IF open > 0 THEN open ELSE 0

DashboardMoney ==
  [collected |-> Paid({b \in DOMAIN bill : bill[b].paid}),
   uncollected |-> Sum({b \in DOMAIN bill : ~bill[b].paid}, [b \in DOMAIN bill |-> Uncollected(b)])]

-----------------------------------------------------------------------------
(* Salaries.                                                                *)

WageItemIds == UNION {{w} \X DOMAIN wage[w].items : w \in DOMAIN wage}
WageItem(x) == wage[x[1]].items[x[2]]

WageItems(f) ==
  {x \in WageItemIds : InMonth(f, wage[x[1]].month) /\ InClass(f, WageItem(x).class)}

WageAmounts(X) == Sum(X, [x \in WageItemIds |-> WageItem(x).amount])

\* COALESCE(wi.role, ...)
RoleOf(x) ==
  IF WageItem(x).role # None THEN WageItem(x).role
  ELSE IF wage[x[1]].type = "Teaching Assistant" THEN "assistant" ELSE "teacher"

\* getSalarySummary, getSalaryByMonth
SalarySummary(f) ==
  [total |-> [r \in {"teacher", "assistant"} |->
                WageAmounts({x \in WageItems(f) : RoleOf(x) = r})],
   paid |-> WageAmounts({x \in WageItems(f) : wage[x[1]].paid})]

SalaryByMonth(f) ==
  [m \in Month |-> [r \in {"teacher", "assistant"} |->
     WageAmounts({x \in WageItems([f EXCEPT !.month = None]) :
                wage[x[1]].month = m /\ RoleOf(x) = r})]]

\* getSalaryByTeacher
SalaryByTeacher(f) ==
  [t \in {wage[w].teacher : w \in DOMAIN wage} |->
     LET X == {x \in WageItems(f) : wage[x[1]].teacher = t}
     IN [total |-> WageAmounts(X),
         paid |-> WageAmounts({x \in X : wage[x[1]].paid})]]

\* total_amount, and paid_amount of a wage paid in full
WageTotal(w) == WageAmounts({x \in WageItemIds : x[1] = w})
WageTotals(W) == Sum(W, [w \in DOMAIN wage |-> WageTotal(w)])

\* getTeacherSalaryHistory
SalaryHistory(t) ==
  LET W == {w \in DOMAIN wage : wage[w].teacher = t}
  IN [paid |-> WageTotals({w \in W : wage[w].paid}),
      pending |-> WageTotals({w \in W : ~wage[w].paid})]

\* The dashboard's paid salaries
PaidSalaries == WageTotals({w \in DOMAIN wage : wage[w].paid})

-----------------------------------------------------------------------------
(* Attendance by class, with the tuition of each student.                   *)

\* The rates of items of the lesson's student, class and month: a later row of
\* the query replaces an earlier one.
ItemRates(i) ==
  {Item(x).rate : x \in {y \in ItemIds :
     /\ bill[y[1]].student = lesson[i].student /\ bill[y[1]].month = lesson[i].month
     /\ Item(y).class = lesson[i].class}}

\* billed_amount, else the rate of an item, else the price in force
SessionRates(i) ==
  IF lesson[i].bill # 0 THEN {lesson[i].amount}
  ELSE IF ItemRates(i) # {} THEN ItemRates(i) ELSE {fee[lesson[i].class]}

LessonsShown(f) ==
  {i \in DOMAIN lesson : InMonth(f, lesson[i].month) /\ InClass(f, lesson[i].class)}

\* totalTuition: present lessons at their rates, where these are determined
TuitionShown(f, c) ==
  Sum({i \in LessonsShown(f) : lesson[i].class = c /\ lesson[i].present},
      [i \in DOMAIN lesson |-> CHOOSE r \in SessionRates(i) : TRUE])

-----------------------------------------------------------------------------
ReportNext ==
  \/ \E s \in Learner, c \in Group :
       \/ Join(s, c) \/ Leave(s, c)
       \/ \E m \in Month, present \in BOOLEAN : HoldLesson(s, c, m, present)
  \/ \E c \in Group : \E n \in Fee[c] : ChangeFee(c, n)
  \/ \E s \in Learner, m \in Month, extra \in Extra : BillStudent(s, m, extra)
  \/ \E b \in DOMAIN bill : PayBill(b)

ReportSpec == ReportInit /\ [][ReportNext]_reportVars

-----------------------------------------------------------------------------
\* The tuition that attendance by class shows for a class is what its bills ask,
\* whatever the price is now, once its lessons are billed and no bill with an
\* item of the class was adjusted.
TuitionShownIsBilled ==
  \A c \in Group :
    LET f == [NoFilter EXCEPT !.classes = {c}]
    IN (/\ \A i \in DOMAIN lesson : lesson[i].class = c => lesson[i].bill # 0
        /\ \A x \in ItemIds : Item(x).class = c => bill[x[1]].adjusted = 0)
       => TuitionShown(f, c) = RevenueByCenter(f)[CenterOf[c]].expected

\* The sum of a view, and of the amounts in its records
SumOf(view) == Sum(DOMAIN view, view)
TotalExpected(view) == SumOf([k \in DOMAIN view |-> view[k].expected])
TotalPaid(view) == SumOf([k \in DOMAIN view |-> view[k].paid])

\* Expected and collected are the same in total, by month, by center, by period and
\* on the dashboard, if that shows the months of all bills; sale orders add up to
\* them.  The debts of students in one Active class each are what their bills leave
\* open (of others, once per class).
RevenueViewsAgree ==
  LET all == RevenueSummary(NoFilter)
      byMonth == RevenueByMonth(NoFilter)
  IN /\ \A m \in Month \union {None} :
          LET f == [NoFilter EXCEPT !.month = m]
          IN /\ RevenueSummary(f).expected = TotalExpected(RevenueByCenter(f))
             /\ RevenueSummary(f).paid = TotalPaid(RevenueByCenter(f))
             /\ RevenueSummary(f).expected = SumOf(SaleOrders(f))
     /\ all.expected = TotalExpected(byMonth) /\ all.paid = TotalPaid(byMonth)
     /\ all.expected = TotalExpected(PeriodStats) /\ all.paid = TotalPaid(PeriodStats)
     /\ bill # <<>> /\ (\A b \in DOMAIN bill : bill[b].month \in DOMAIN DashboardRevenue) =>
          all.expected = TotalExpected(DashboardRevenue) /\ all.paid = TotalPaid(DashboardRevenue)
     /\ DashboardMoney = [collected |-> all.paid, uncollected |-> all.expected - all.paid]
     /\ (\A s \in Learner : Cardinality(ActiveRows(s)) = 1) =>
          all.expected - all.paid = SumOf(Debts(NoFilter))

\* A student's pages repeat the sheets of the periods, where lessons and items both
\* add up to what is asked.
SheetsAgree ==
  \A b \in DOMAIN bill :
    LET sheet == PeriodSheets(bill[b].period)[b]
        s == bill[b].student
    IN /\ MyTuition(s)[b] = sheet
       /\ TuitionHistory(s)[b].items = sheet.items
       /\ SumOf([i \in DOMAIN sheet.items |-> sheet.items[i].total]) = sheet.total
       /\ SumOf(sheet.lessons) + bill[b].adjusted = sheet.total

\* Salaries by role are those by month and by teacher.
SalaryViewsAgree ==
  LET all == SalarySummary(NoFilter)
      byMonth == SalaryByMonth(NoFilter)
      byTeacher == SalaryByTeacher(NoFilter)
  IN /\ \A r \in {"teacher", "assistant"} :
          all.total[r] = SumOf([m \in Month |-> byMonth[m][r]])
     /\ all.total["teacher"] + all.total["assistant"] =
          SumOf([t \in DOMAIN byTeacher |-> byTeacher[t].total])
     /\ all.paid = TotalPaid(byTeacher) /\ all.paid = PaidSalaries
     /\ \A t \in DOMAIN byTeacher :
          SalaryHistory(t) = [paid |-> byTeacher[t].paid,
                              pending |-> byTeacher[t].total - byTeacher[t].paid]

\* Without a class or center, the money views agree, whoever joins, leaves, pays or
\* is billed in between; and attendance by class shows the tuition billed.
MoneyViewsAgree ==
  /\ TuitionShownIsBilled
  /\ bill # <<>> \/ wage # <<>> => RevenueViewsAgree /\ SheetsAgree /\ SalaryViewsAgree
=============================================================================
