--------------------------- MODULE BillCalculation ---------------------------
(***************************************************************************)
(* What a new payment period charges or pays: BillingCalculator groups the *)
(* lessons found into one order per owner, a salary order is reduced to    *)
(* net, teachers on commission get theirs, staff may adjust a total.  The  *)
(* sheet a student or teacher looks at computes the same amounts again,    *)
(* from prices and bill items.                                             *)
(***************************************************************************)
EXTENDS Integers, Sequences, FiniteSets, Sums

CONSTANTS
  SourceId,       \* attendance rows or taught sessions
  Owner,          \* students, or teachers
  CommissionOwner, \* Active teachers with has_commission_salary
  Class,
  Rate,           \* prices of a lesson, 0 if no price applies
  Revenue,        \* tuition of the period's month
  Adjustment      \* amounts staff set, -1 stands for an invalid one

ASSUME BillConstants ==
  /\ IsFiniteSet(SourceId) /\ CommissionOwner \subseteq Owner
  /\ Rate \subseteq Int /\ Revenue \subseteq Int /\ Adjustment \subseteq Int

VARIABLES
  kind,     \* "tuition" or "salary"
  source,   \* the lessons to bill; all of the period's month
  todo,     \* those the loop has not reached
  order,    \* order drafts by owner
  stage     \* "calculate", "adjust", "saved" or "refused"

billVars == <<kind, source, todo, order, stage>>

NoOrder == [total |-> 0, sessions |-> 0, lines |-> <<>>]

Role == [tuition |-> {"student"}, salary |-> {"teacher", "assistant"}]

SourceTables(k) ==
  [SourceId -> [owner : Owner, class : Class, rate : Rate, role : Role[k],
                present : IF k = "tuition" THEN BOOLEAN ELSE {TRUE}]]

BillInit ==
  /\ kind \in {"tuition", "salary"}
  /\ source \in SourceTables(kind)
  /\ todo = SourceId
  /\ order = [o \in {} |-> NoOrder]
  /\ stage = "calculate"

Total(lines) == Sum(DOMAIN lines, [i \in DOMAIN lines |-> lines[i].total])

\* Math.round(0.9 * amount)
Net(amount) == (9 * amount + 5) \div 10

-----------------------------------------------------------------------------
\* A student who was absent is not charged.
Charge(s) == IF source[s].present THEN source[s].rate ELSE 0

\* Mutant: a line is found by class and role only.
SameLine_AnyRate(l, s) == l.class = source[s].class /\ l.role = source[s].role

\* One line per class, rate and role
SameLine(l, s) ==
  l.class = source[s].class /\ l.role = source[s].role /\ l.rate = Charge(s)

NewLine(s) ==
  [ids |-> {s}, class |-> source[s].class, role |-> source[s].role,
   count |-> 1, rate |-> Charge(s), total |-> Charge(s)]

WithLesson(l, s) ==
  [l EXCEPT !.ids = @ \union {s}, !.count = @ + 1, !.total = @ + Charge(s)]

LinesWith(lines, s) ==
  LET at == {i \in DOMAIN lines : SameLine(lines[i], s)}
  IN IF at = {} THEN Append(lines, NewLine(s))
     ELSE [lines EXCEPT ![CHOOSE i \in at : \A j \in at : i <= j] = WithLesson(@, s)]

\* BillingCalculator.calculate, one turn of the loop; the query orders nothing
AddSource(s) ==
  LET o == source[s].owner
      old == IF o \in DOMAIN order THEN order[o] ELSE NoOrder
      new == [total |-> old.total + Charge(s),
              sessions |-> old.sessions + (IF source[s].present THEN 1 ELSE 0),
              lines |-> LinesWith(old.lines, s)]
  IN /\ stage = "calculate" /\ s \in todo
     /\ todo' = todo \ {s}
     /\ order' = [x \in DOMAIN order \union {o} |-> IF x = o THEN new ELSE order[x]]
     /\ UNCHANGED <<kind, source, stage>>

-----------------------------------------------------------------------------
\* A fifth of the first hundred million, a quarter of the second, three tenths
\* of the third, rounded half up
Commission(revenue) ==
  LET M == 1000000
  IN IF revenue < 100 * M THEN (2 * revenue + 5) \div 10
     ELSE IF revenue < 200 * M THEN 20 * M + (revenue - 100 * M + 2) \div 4
     ELSE IF revenue < 300 * M THEN 45 * M + (3 * (revenue - 200 * M) + 5) \div 10
     ELSE 75 * M

NetOrder(d) ==
  [total |-> Net(d.total),
   sessions |-> d.sessions,
   lines |-> [i \in DOMAIN d.lines |-> [d.lines[i] EXCEPT !.rate = Net(@), !.total = Net(@)]]]

PayLine(what, amount) ==
  [ids |-> {}, class |-> what, role |-> "", count |-> 0, rate |-> amount, total |-> amount]

CommissionLine(revenue) == PayLine("commission", Net(Commission(revenue)))

\* Base salary, and what is left of it
BaseSalary == 5000000
NetBase == 4500000

\* Base salary and commission replace the wages; the lessons are listed at 0.
CommissionOrder(d, revenue) ==
  [total |-> Net(BaseSalary + Commission(revenue)),
   sessions |-> d.sessions,
   lines |-> <<PayLine("base", NetBase), CommissionLine(revenue)>> \o
             [i \in DOMAIN d.lines |-> [d.lines[i] EXCEPT !.rate = 0, !.total = 0]]]

\* What CreatePaymentPeriodUseCase does with the calculated orders
Settle(revenue) ==
  /\ stage = "calculate" /\ todo = {}
  /\ order' =
       IF kind = "tuition" THEN order
       ELSE [o \in DOMAIN order \union CommissionOwner |->
               IF o \notin CommissionOwner THEN NetOrder(order[o])
               ELSE CommissionOrder(IF o \in DOMAIN order THEN order[o] ELSE NoOrder, revenue)]
  /\ stage' = "adjust"
  /\ UNCHANGED <<kind, source, todo>>

AdjustedOrder(d, amount) ==
  IF amount = d.total THEN d
  ELSE [d EXCEPT !.total = amount,
         !.lines = Append(@, PayLine(@[1].class, amount - d.total))]

\* applyAdjustments for the owners in A, then saveOrders; an invalid amount or a
\* missing reason refuses the period.
Adjust(A, amount) ==
  /\ stage = "adjust" /\ A \subseteq DOMAIN order
  /\ IF A # {} /\ amount < 0
     THEN stage' = "refused" /\ UNCHANGED order
     ELSE /\ order' = [o \in DOMAIN order |->
                         IF o \in A THEN AdjustedOrder(order[o], amount) ELSE order[o]]
          /\ stage' = "saved"
  /\ UNCHANGED <<kind, source, todo>>

-----------------------------------------------------------------------------
(* What staff look at before the period is created, computed again.        *)

OwnersBilled == {source[s].owner : s \in SourceId}
OrderCharge(o) ==
  Sum({s \in SourceId : source[s].owner = o}, [s \in SourceId |-> Charge(s)])

\* PreviewTuitionUseCase, totals by student
PreviewTuition == [o \in OwnersBilled |-> OrderCharge(o)]

\* PreviewSalaryUseCase, totals by teacher: commission or net wages
PreviewSalary(revenue) ==
  [o \in OwnersBilled \union CommissionOwner |->
     IF o \in CommissionOwner THEN Net(BaseSalary + Commission(revenue)) ELSE Net(OrderCharge(o))]

-----------------------------------------------------------------------------
BillNext ==
  \/ \E s \in SourceId : AddSource(s)
  \/ \E revenue \in Revenue : Settle(revenue)
  \/ \E A \in SUBSET Owner, amount \in Adjustment : Adjust(A, amount)

BillSpec == BillInit /\ [][BillNext]_billVars

-----------------------------------------------------------------------------
\* The lines of an owner for a class
LinesOf(o, c) == {i \in DOMAIN order[o].lines : order[o].lines[i].class = c}

\* The rate the sheet shows: if the month has bill items of the class, that of
\* whichever the query returns last, else the price.
SheetRates(o, s) ==
  LET I == LinesOf(o, source[s].class)
  IN IF stage = "saved" /\ I # {} THEN {order[o].lines[i].rate : i \in I}
     ELSE {source[s].rate}

\* CalculateStudentTuitionUseCase, per lesson
SheetAmounts(o, s) == IF source[s].present THEN SheetRates(o, s) ELSE {0}

\* The lessons of an owner in a class
Of(o, c) == {s \in SourceId \ todo : source[s].owner = o /\ source[s].class = c}

\* An order can be explained lesson by lesson.  Before anything is adjusted the
\* totals are those of the preview.  Every lesson the loop has passed is
\* on exactly one line, and a line's amount is its lessons times its rate.  A
\* tuition total, adjusted or not, is the sum of its lines; net pay differs from
\* it by half a dong a line and half a dong for the total at most, on commission
\* not at all.  The student's sheet agrees with the bill on a class of which every
\* lesson costs the same: on one line, not adjusted.
OrderExplained ==
 /\ stage = "adjust" =>
      LET totals == [o \in DOMAIN order |-> order[o].total]
      IN IF kind = "tuition" THEN totals = PreviewTuition
         ELSE \E revenue \in Revenue : totals = PreviewSalary(revenue)
 /\ \A o \in DOMAIN order :
    LET L == order[o].lines
        off == 2 * (order[o].total - Total(L))
        rounded == IF o \in CommissionOwner THEN 0 ELSE Len(L) + 1
    IN /\ \A s \in SourceId \ todo : source[s].owner = o =>
            Cardinality({i \in DOMAIN L : s \in L[i].ids}) = 1
       /\ \A i \in DOMAIN L : Cardinality(L[i].ids) = L[i].count
       /\ kind = "salary" => -rounded <= off /\ off <= rounded
       /\ kind = "tuition" =>
            /\ \A i \in DOMAIN L : L[i].ids # {} => L[i].total = L[i].count * L[i].rate
            /\ off = 0
            /\ \A c \in Class, i \in DOMAIN L : LinesOf(o, c) = {i} =>
                 \A s \in Of(o, c) : SheetAmounts(o, s) = {L[i].rate}
=============================================================================
