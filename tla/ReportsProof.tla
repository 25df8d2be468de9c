----------------------------- MODULE ReportsProof -----------------------------
(***************************************************************************)
(* The reports on bills, lessons and wages agree: what the bills keep, and *)
(* the same amounts grouped by month, center, period, student and teacher. *)
(* The weekly report of a student: a better lesson never makes it worse.   *)
(***************************************************************************)
EXTENDS Reports, WeeklyReports, SumsProof, SequenceTheorems, TLAPS

-----------------------------------------------------------------------------

LessonRow ==
  [student : Learner, class : Group, month : Month, present : BOOLEAN, bill : Nat, amount : Int]

ItemRow == [class : Group, rate : Int, total : Int]

BillRow ==
  [student : Learner, month : Month, period : Month \X Nat, items : Seq(ItemRow),
   total : Nat, adjusted : Int, paid : BOOLEAN]

ReportTyped ==
  /\ fee \in [Group -> Int]
  /\ lesson \in Seq(LessonRow) /\ \A i \in DOMAIN lesson : lesson[i].bill \in 0..Len(bill)
  /\ bill \in Seq(BillRow) /\ \A b \in DOMAIN bill : bill[b].items # <<>>
  /\ wage \in Seq(WageRow)

LessonsOf(b, c) == {i \in DOMAIN lesson : lesson[i].bill = b /\ lesson[i].class = c}
LessonCosts == [i \in DOMAIN lesson |-> IF lesson[i].present THEN lesson[i].amount ELSE 0]
ItemTotals(b) == [k \in DOMAIN bill[b].items |-> bill[b].items[k].total]
ItemsIn(b, c) == {k \in DOMAIN bill[b].items : bill[b].items[k].class = c}

\* The items of a bill add up to its total, and those of a class to the lessons of the
\* class; an adjustment is of the first item's class.
BillAdds(b) ==
  /\ bill[b].total = Sum(DOMAIN bill[b].items, ItemTotals(b))
  /\ \A c \in Group :
       Sum(ItemsIn(b, c), ItemTotals(b)) =
         Sum(LessonsOf(b, c), LessonCosts)
         + (IF bill[b].items[1].class = c THEN bill[b].adjusted ELSE 0)

ReportInv == ReportTyped /\ \A b \in DOMAIN bill : BillAdds(b)

IdsOf(b) == {b} \X DOMAIN bill[b].items

\* The fields of a bill
LEMMA BillFields ==
  ASSUME ReportTyped, NEW b \in DOMAIN bill
  PROVE  /\ bill[b].student \in Learner /\ bill[b].month \in Month
         /\ bill[b].period \in Month \X Nat
         /\ bill[b].total \in Nat /\ bill[b].adjusted \in Int /\ bill[b].paid \in BOOLEAN
         /\ IsFiniteSet(DOMAIN bill[b].items) /\ 1 \in DOMAIN bill[b].items
         /\ \A i \in DOMAIN bill[b].items :
              bill[b].items[i].class \in Group /\ bill[b].items[i].total \in Int
<1>1. bill[b] \in BillRow
  BY DEF ReportTyped
<1> DEFINE items == bill[b].items
<1>2. items \in Seq(ItemRow) /\ items # <<>>
  BY <1>1 DEF ReportTyped, BillRow
<1>3. items \in [1..Len(items) -> ItemRow] /\ Len(items) \in Nat /\ Len(items) # 0
  <2> HIDE DEF items
  <2> QED
    BY <1>2
<1>4. IsFiniteSet(DOMAIN items) /\ 1 \in DOMAIN items
  <2> HIDE DEF items
  <2>1. DOMAIN items = 1..Len(items) /\ IsFiniteSet(1..Len(items))
    BY <1>3, FS_Interval
  <2>2. 1 \in 1..Len(items)
    BY <1>3
  <2> QED
    BY <2>1, <2>2
<1>5. \A i \in DOMAIN items : items[i].class \in Group /\ items[i].total \in Int
  <2> HIDE DEF items
  <2>1. \A i \in DOMAIN items : items[i] \in ItemRow
    BY <1>3
  <2> QED
    BY <2>1 DEF ItemRow
<1> QED
  BY <1>1, <1>4, <1>5 DEF BillRow

\* The items of all bills, and of each
LEMMA ItemFacts ==
  ASSUME ReportTyped
  PROVE  /\ IsFiniteSet(DOMAIN bill) /\ IsFiniteSet(ItemIds)
         /\ \A b \in DOMAIN bill : IsFiniteSet(IdsOf(b)) /\ IdsOf(b) \subseteq ItemIds
         /\ \A x \in ItemIds : x[1] \in DOMAIN bill /\ x \in IdsOf(x[1])
         /\ \A b, x : x \in IdsOf(b) => x[1] = b
         /\ \A x \in ItemIds : Item(x).class \in Group /\ Item(x).total \in Int
<1>1. IsFiniteSet(DOMAIN bill)
  <2>1. DOMAIN bill = 1..Len(bill) /\ Len(bill) \in Nat
    BY DEF ReportTyped
  <2> QED
    BY <2>1, FS_Interval
<1>2. \A b \in DOMAIN bill : IsFiniteSet(IdsOf(b))
  <2> TAKE b \in DOMAIN bill
  <2>1. IsFiniteSet(DOMAIN bill[b].items) /\ IsFiniteSet({b})
    BY BillFields, FS_Singleton
  <2> QED
    BY <2>1, FS_Product DEF IdsOf
<1>3. ItemIds = UNION {IdsOf(b) : b \in DOMAIN bill}
  BY DEF ItemIds, IdsOf
<1> DEFINE T == {IdsOf(b) : b \in DOMAIN bill}
           ids == [b \in DOMAIN bill |-> IdsOf(b)]
<1>4. IsFiniteSet(T)
  <2>1. \A y \in T : \E b \in DOMAIN bill : ids[b] = y
    OBVIOUS
  <2> HIDE DEF T, ids
  <2> QED
    BY <1>1, <2>1, ImageFinite
<1>5. IsFiniteSet(UNION T)
  <2>1. \A y \in T : IsFiniteSet(y)
    BY <1>2
  <2> HIDE DEF T
  <2> QED
    BY <1>4, <2>1, FS_UNION
<1>6. \A b, x : x \in IdsOf(b) => x[1] = b /\ x[2] \in DOMAIN bill[b].items
  BY DEF IdsOf
<1>7. \A x \in ItemIds : \E b \in DOMAIN bill : x \in IdsOf(b)
  BY <1>3
<1>8. \A x \in ItemIds : Item(x).class \in Group /\ Item(x).total \in Int
  <2> TAKE x \in ItemIds
  <2>1. x[1] \in DOMAIN bill /\ x[2] \in DOMAIN bill[x[1]].items
    BY <1>6, <1>7
  <2> QED
    BY <2>1, BillFields DEF Item
<1> QED
  BY <1>1, <1>2, <1>3, <1>5, <1>6, <1>7, <1>8

\* What is divided by its factor
LEMMA DivideWhole ==
  ASSUME NEW a \in Int, NEW t \in Nat, t > 0
  PROVE  (a * t) \div t = a /\ (a * 0) \div t = 0
<1>1. (a * t) \div t = a
  OBVIOUS
<1>2. a * 0 = 0 /\ 0 \div t = 0
  OBVIOUS
<1> QED
  BY <1>1, <1>2

\* The items of a bill ask for its total, and their parts of a payment are the payment.
LEMMA OneBill ==
  ASSUME ReportInv, NEW b \in DOMAIN bill
  PROVE  /\ Sum(IdsOf(b), [x \in ItemIds |-> ItemAmount(x)]) = bill[b].total
         /\ Sum(IdsOf(b), [x \in ItemIds |-> ItemPaid(x)]) = PaidAmount(b)
<1> USE DEF ReportInv
<1> DEFINE amounts == [x \in ItemIds |-> ItemAmount(x)]
           parts == [x \in ItemIds |-> ItemPaid(x)]
           items == bill[b].items
           K == DOMAIN items
           X == IdsOf(b)
           name == [i \in K |-> <<b, i>>]
           total == bill[b].total
<1>1. IsFiniteSet(X) /\ X \subseteq ItemIds /\ IsFiniteSet(K) /\ total \in Nat
  BY ItemFacts, BillFields
<1>2. \A x \in X : amounts[x] = bill[b].items[x[2]].total /\ amounts[x] \in Int
  <2> TAKE x \in X
  <2>1. x \in ItemIds /\ x[1] = b
    BY <1>1, ItemFacts
  <2> QED
    BY <2>1, ItemFacts DEF ItemAmount, Item
<1>3. Sum(X, amounts) = total
  <2> DEFINE g == ItemTotals(b)
  <2>1. \A i \in K : name[i] \in X
    BY DEF IdsOf
  <2>2. \A i \in K : name[i][2] = i /\ g[i] = bill[b].items[i].total
    BY DEF ItemTotals
  <2>3. \A x \in X : \E i \in K : name[i] = x
    BY DEF IdsOf
  <2>4. \A i \in K : g[i] = amounts[name[i]]
    BY <1>2, <2>1, <2>2
  <2>5. \A i, k \in K : name[i] = name[k] => i = k
    BY <2>2
  <2>6. Sum(K, g) = total
    BY DEF BillAdds
  <2> HIDE DEF K, X, g, name, amounts, total
  <2>7. \A i \in K : name[i] \in X /\ g[i] = amounts[name[i]]
    BY <2>1, <2>4
  <2>8. \A x \in X : amounts[x] \in Int /\ \E i \in K : name[i] = x
    BY <1>2, <2>3
  <2>9. Sum(K, g) = Sum(X, amounts)
    BY <1>1, <2>5, <2>7, <2>8, SumRenamed
  <2> QED
    BY <2>6, <2>9
<1>4. \A x \in X : parts[x] = IF total > 0 THEN (amounts[x] * PaidAmount(b)) \div total ELSE 0
  <2> TAKE x \in X
  <2>1. x \in ItemIds /\ x[1] = b
    BY <1>1, ItemFacts
  <2> QED
    BY <2>1 DEF ItemPaid
<1>5. CASE bill[b].paid /\ total > 0
  <2>1. PaidAmount(b) = total
    BY <1>5 DEF PaidAmount
  <2> HIDE DEF X, amounts, parts, total
  <2>2. \A x \in X : parts[x] = amounts[x]
    <3> TAKE x \in X
    <3> DEFINE a == amounts[x]
    <3>1. a \in Int /\ parts[x] = (a * total) \div total
      BY <1>2, <1>4, <1>5, <2>1
    <3> HIDE DEF a
    <3>2. (a * total) \div total = a
      BY <1>1, <1>5, <3>1, DivideWhole
    <3> QED
      BY <3>1, <3>2 DEF a
  <2>3. Sum(X, parts) = Sum(X, amounts)
    BY <1>1, <2>2, SumSame
  <2> QED
    BY <1>3, <2>1, <2>3 DEF X, amounts, parts, total
<1>6. CASE ~(bill[b].paid /\ total > 0)
  <2>1. PaidAmount(b) = 0
    BY <1>1, <1>6 DEF PaidAmount
  <2> HIDE DEF X, amounts, parts, total
  <2>2. \A x \in X : parts[x] = 0
    <3> TAKE x \in X
    <3> DEFINE a == amounts[x]
    <3>1. a \in Int /\ parts[x] = IF total > 0 THEN (a * 0) \div total ELSE 0
      BY <1>2, <1>4, <2>1
    <3> HIDE DEF a
    <3>2. total > 0 => (a * 0) \div total = 0
      BY <1>1, <3>1, DivideWhole
    <3> QED
      BY <3>1, <3>2
  <2>3. Sum(X, parts) = 0
    BY <1>1, <2>2, SumZeros
  <2> QED
    BY <1>3, <2>1, <2>3 DEF X, amounts, parts, total
<1> QED
  BY <1>5, <1>6

\* What bills ask and are paid, as a number
LEMMA BillSums ==
  ASSUME ReportTyped, NEW B, B \subseteq DOMAIN bill
  PROVE  /\ IsFiniteSet(B) /\ Expected(B) \in Int /\ Paid(B) \in Int
         /\ \A b \in B : bill[b].total \in Int /\ PaidAmount(b) \in Int
<1>1. IsFiniteSet(B)
  BY ItemFacts, FS_Subset
<1> DEFINE f == [b \in DOMAIN bill |-> bill[b].total]
           g == [b \in DOMAIN bill |-> PaidAmount(b)]
<1>2. \A b \in B : bill[b].total \in Int /\ PaidAmount(b) \in Int
  <2> TAKE b \in B
  <2>1. bill[b].total \in Nat
    BY BillFields
  <2> QED
    BY <2>1 DEF PaidAmount
<1>3. \A b \in B : f[b] \in Int /\ g[b] \in Int
  BY <1>2
<1>4. Expected(B) = Sum(B, f) /\ Paid(B) = Sum(B, g)
  BY DEF Expected, Paid
<1> HIDE DEF f, g
<1>5. Sum(B, f) \in Int /\ Sum(B, g) \in Int
  BY <1>1, <1>3, SumInt
<1> QED
  BY <1>1, <1>2, <1>4, <1>5

ItemsOn(B) == {x \in ItemIds : x[1] \in B}

\* The items of some bills ask and are paid what these are.
LEMMA ItemsOfBills ==
  ASSUME ReportInv, NEW B, B \subseteq DOMAIN bill
  PROVE  ItemsExpected(ItemsOn(B)) = Expected(B) /\ ItemsPaid(ItemsOn(B)) = Paid(B)
<1> DEFINE X == ItemsOn(B)
           amounts == [x \in ItemIds |-> ItemAmount(x)]
           parts == [x \in ItemIds |-> ItemPaid(x)]
           asked == [b \in DOMAIN bill |-> bill[b].total]
           got == [b \in DOMAIN bill |-> PaidAmount(b)]
           ids == [b \in B |-> IdsOf(b)]
           key == [x \in ItemIds |-> x[1]]
<1>0. ReportTyped
  BY DEF ReportInv
<1>1. IsFiniteSet(B) /\ IsFiniteSet(X) /\ X \subseteq ItemIds
  BY <1>0, ItemFacts, FS_Subset DEF ItemsOn
<1>2. \A x \in X : key[x] \in B /\ x[1] \in B
  BY DEF ItemsOn
<1>3. \A b \in B : \A x : x \in ids[b] <=> x \in X /\ key[x] = b
  <2> TAKE b \in B
  <2> TAKE x
  <2>1. x \in IdsOf(b) <=> x \in ItemIds /\ x[1] = b
    BY <1>0, ItemFacts
  <2>2. x \in X <=> x \in ItemIds /\ x[1] \in B
    BY DEF ItemsOn
  <2> HIDE DEF X
  <2> QED
    BY <2>1, <2>2
<1>4. \A x \in X : amounts[x] \in Int
  BY <1>0, <1>1, ItemFacts DEF ItemAmount
<1>5. \A x \in X : parts[x] \in Int
  <2> TAKE x \in X
  <2> DEFINE a == ItemAmount(x)
             p == PaidAmount(x[1])
             t == bill[x[1]].total
  <2>1. a \in Int /\ t \in Nat
    BY <1>0, <1>1, ItemFacts, BillFields DEF ItemAmount
  <2>2. p \in Int
    BY <1>0, <1>2, BillSums
  <2>3. parts[x] = IF t > 0 THEN (a * p) \div t ELSE 0
    BY <1>1 DEF ItemPaid
  <2> HIDE DEF a, p, t
  <2>4. a * p \in Int
    BY <2>1, <2>2
  <2> QED
    BY <2>1, <2>3, <2>4
<1>6. \A b \in B : asked[b] = Sum(ids[b], amounts) /\ got[b] = Sum(ids[b], parts)
  BY OneBill
<1>7. /\ ItemsExpected(X) = Sum(X, amounts) /\ ItemsPaid(X) = Sum(X, parts)
      /\ Expected(B) = Sum(B, asked) /\ Paid(B) = Sum(B, got)
  BY DEF ItemsExpected, ItemsPaid, Expected, Paid
<1> HIDE DEF X, amounts, parts, asked, got, ids, key
<1>8. Sum(X, amounts) = Sum(B, asked)
  <2>1. \A x \in X : amounts[x] \in Int /\ key[x] \in B
    BY <1>2, <1>4
  <2>2. \A b \in B : asked[b] = Sum(ids[b], amounts)
    BY <1>6
  <2>3. Keyed(X, B, key, ids, amounts, asked)
    BY <1>3, <2>1, <2>2 DEF Keyed
  <2> QED
    BY <1>1, <2>3, SumKeys
<1>9. Sum(X, parts) = Sum(B, got)
  <2>1. \A x \in X : parts[x] \in Int /\ key[x] \in B
    BY <1>2, <1>5
  <2>2. \A b \in B : got[b] = Sum(ids[b], parts)
    BY <1>6
  <2>3. Keyed(X, B, key, ids, parts, got)
    BY <1>3, <2>1, <2>2 DEF Keyed
  <2> QED
    BY <1>1, <2>3, SumKeys
<1> QED
  BY <1>7, <1>8, <1>9 DEF X

\* The bills and the items grouped by a key
BillsBy(B, C, key, part, asked, got) ==
  /\ \A b \in B : key[b] \in C
  /\ \A c \in C : asked[c] = Expected(part[c]) /\ got[c] = Paid(part[c])
  /\ \A c \in C : \A x : x \in part[c] <=> x \in B /\ key[x] = c

ItemsBy(X, C, key, part, asked, got) ==
  /\ \A x \in X : key[x] \in C
  /\ \A c \in C : asked[c] = ItemsExpected(part[c]) /\ got[c] = ItemsPaid(part[c])
  /\ \A c \in C : \A x : x \in part[c] <=> x \in X /\ key[x] = c

\* What groups of bills ask and are paid adds up.
LEMMA BillGroups ==
  ASSUME ReportTyped, NEW B, B \subseteq DOMAIN bill, NEW C, IsFiniteSet(C),
         NEW key, NEW part, NEW asked, NEW got, BillsBy(B, C, key, part, asked, got)
  PROVE  Expected(B) = Sum(C, asked) /\ Paid(B) = Sum(C, got)
<1> DEFINE f == [b \in DOMAIN bill |-> bill[b].total]
           g == [b \in DOMAIN bill |-> PaidAmount(b)]
<1>1. IsFiniteSet(B) /\ \A b \in B : f[b] \in Int /\ g[b] \in Int
  BY BillSums
<1>2. /\ Expected(B) = Sum(B, f) /\ Paid(B) = Sum(B, g)
      /\ \A c \in C : asked[c] = Sum(part[c], f) /\ got[c] = Sum(part[c], g)
  BY DEF Expected, Paid, BillsBy
<1> HIDE DEF f, g
<1>3. Keyed(B, C, key, part, f, asked)
  BY <1>1, <1>2 DEF Keyed, BillsBy
<1>4. Keyed(B, C, key, part, g, got)
  BY <1>1, <1>2 DEF Keyed, BillsBy
<1>5. Expected(B) = Sum(C, asked)
  BY <1>1, <1>2, <1>3, SumKeys
<1>6. Paid(B) = Sum(C, got)
  BY <1>1, <1>2, <1>4, SumKeys
<1> QED
  BY <1>5, <1>6

\* The amounts of items, and their parts of payments, are numbers.
LEMMA ItemNumbers ==
  ASSUME ReportTyped, NEW x \in ItemIds
  PROVE  ItemAmount(x) \in Int /\ ItemPaid(x) \in Int
<1> DEFINE a == ItemAmount(x)
           p == PaidAmount(x[1])
           t == bill[x[1]].total
<1>1. a \in Int /\ t \in Nat
  BY ItemFacts, BillFields DEF ItemAmount
<1>2. p \in Int
  BY ItemFacts, BillSums
<1>3. ItemPaid(x) = IF t > 0 THEN (a * p) \div t ELSE 0
  BY DEF ItemPaid
<1> HIDE DEF a, p, t
<1>4. a * p \in Int
  BY <1>1, <1>2
<1>5. ItemPaid(x) \in Int
  BY <1>1, <1>3, <1>4
<1> QED
  BY <1>1, <1>5 DEF a

\* So does what groups of items do.
LEMMA ItemGroups ==
  ASSUME ReportTyped, NEW X, X \subseteq ItemIds, NEW C, IsFiniteSet(C),
         NEW key, NEW part, NEW asked, NEW got, ItemsBy(X, C, key, part, asked, got)
  PROVE  ItemsExpected(X) = Sum(C, asked) /\ ItemsPaid(X) = Sum(C, got)
<1> DEFINE f == [x \in ItemIds |-> ItemAmount(x)]
           g == [x \in ItemIds |-> ItemPaid(x)]
<1>1. IsFiniteSet(X) /\ \A x \in X : f[x] \in Int /\ g[x] \in Int
  BY ItemFacts, FS_Subset, ItemNumbers
<1>2. /\ ItemsExpected(X) = Sum(X, f) /\ ItemsPaid(X) = Sum(X, g)
      /\ \A c \in C : asked[c] = Sum(part[c], f) /\ got[c] = Sum(part[c], g)
  BY DEF ItemsExpected, ItemsPaid, ItemsBy
<1> HIDE DEF f, g
<1>3. Keyed(X, C, key, part, f, asked)
  BY <1>1, <1>2 DEF Keyed, ItemsBy
<1>4. Keyed(X, C, key, part, g, got)
  BY <1>1, <1>2 DEF Keyed, ItemsBy
<1>5. ItemsExpected(X) = Sum(C, asked)
  BY <1>1, <1>2, <1>3, SumKeys
<1>6. ItemsPaid(X) = Sum(C, got)
  BY <1>1, <1>2, <1>4, SumKeys
<1> QED
  BY <1>5, <1>6

BillsIn(f) == {b \in DOMAIN bill : InMonth(f, bill[b].month)}

\* A filter by the month alone
LEMMA MonthOnly ==
  ASSUME NEW m, NEW f, f = [NoFilter EXCEPT !.month = m]
  PROVE  /\ f.month = m /\ \A c : InClass(f, c)
         /\ [f EXCEPT !.month = None] = NoFilter
         /\ RevenueBills(f) = BillsIn(f)
<1>1. f = [month |-> m, center |-> None, classes |-> {}]
  BY DEF NoFilter
<1>2. \A c : InClass(f, c)
  BY <1>1 DEF InClass
<1>3. \A s : RosterRows(s) # {}
  BY DEF RosterRows
<1>4. RevenueBills(f) = BillsIn(f)
  BY <1>2, <1>3 DEF RevenueBills, BillsIn
<1>5. [f EXCEPT !.month = None] = NoFilter
  <2>1. [[month |-> m, center |-> None, classes |-> {}] EXCEPT !.month = None]
        = [month |-> None, center |-> None, classes |-> {}]
    OBVIOUS
  <2> QED
    BY <1>1, <2>1, Zenon DEF NoFilter
<1>6. f.month = m
  BY <1>1
<1> QED
  BY <1>2, <1>4, <1>5, <1>6

\* No filter
LEMMA NoMonth ==
  /\ NoFilter = [NoFilter EXCEPT !.month = None]
  /\ RevenueBills(NoFilter) = DOMAIN bill
  /\ \A m : InMonth(NoFilter, m)
<1> DEFINE f == [NoFilter EXCEPT !.month = None]
<1>1. NoFilter = f /\ NoFilter.month = None
  BY DEF NoFilter
<1>2. \A m : InMonth(NoFilter, m)
  BY <1>1 DEF InMonth
<1>3. RevenueBills(NoFilter) = BillsIn(NoFilter)
  BY <1>1, MonthOnly
<1> QED
  BY <1>1, <1>2, <1>3 DEF BillsIn

\* Bills by center
LEMMA CentersAgree ==
  ASSUME ReportInv, NEW m, NEW f, f = [NoFilter EXCEPT !.month = m]
  PROVE  /\ RevenueSummary(f).expected = TotalExpected(RevenueByCenter(f))
         /\ RevenueSummary(f).paid = TotalPaid(RevenueByCenter(f))
<1>0. ReportTyped
  BY DEF ReportInv
<1> DEFINE B == BillsIn(f)
           X == ItemsOn(B)
           C == {CenterOf[c] : c \in Group}
           key == [x \in ItemIds |-> CenterOf[Item(x).class]]
           part == [ct \in C |-> {x \in ItemIds :
                      /\ InMonth(f, bill[x[1]].month) /\ InClass(f, Item(x).class)
                      /\ CenterOf[Item(x).class] = ct}]
           view == RevenueByCenter(f)
           asked == [k \in DOMAIN view |-> view[k].expected]
           got == [k \in DOMAIN view |-> view[k].paid]
<1>1. IsFiniteSet(C)
  <2>1. \A y \in C : \E c \in Group : CenterOf[c] = y
    OBVIOUS
  <2> HIDE DEF C
  <2> QED
    BY <2>1, ReportConstants, ImageFinite
<1>2. B \subseteq DOMAIN bill /\ X \subseteq ItemIds
  BY DEF BillsIn, ItemsOn
<1>3. \A x : x \in X <=> x \in ItemIds /\ InMonth(f, bill[x[1]].month)
  BY <1>0, ItemFacts DEF BillsIn, ItemsOn
<1>4. DOMAIN view = C
  BY DEF RevenueByCenter
<1>5. \A ct \in C : asked[ct] = ItemsExpected(part[ct]) /\ got[ct] = ItemsPaid(part[ct])
  BY DEF RevenueByCenter
<1>6. \A x \in X : key[x] \in C
  BY <1>0, <1>2, ItemFacts
<1>7. \A ct \in C : \A x : x \in part[ct] <=> x \in X /\ key[x] = ct
  <2> TAKE ct \in C
  <2> TAKE x
  <2>1. x \in part[ct] <=> /\ x \in ItemIds /\ InMonth(f, bill[x[1]].month)
                           /\ InClass(f, Item(x).class) /\ CenterOf[Item(x).class] = ct
    OBVIOUS
  <2>2. InClass(f, Item(x).class)
    BY MonthOnly
  <2>3. x \in ItemIds => key[x] = CenterOf[Item(x).class]
    OBVIOUS
  <2> HIDE DEF X, C, key, part
  <2> QED
    BY <1>2, <1>3, <2>1, <2>2, <2>3
<1>8. ItemsExpected(X) = Expected(B) /\ ItemsPaid(X) = Paid(B)
  BY <1>2, ItemsOfBills
<1>9. RevenueSummary(f).expected = Expected(B) /\ RevenueSummary(f).paid = Paid(B)
  BY MonthOnly DEF RevenueSummary
<1>10. TotalExpected(view) = Sum(C, asked) /\ TotalPaid(view) = Sum(C, got)
  BY <1>4 DEF TotalExpected, TotalPaid, SumOf
<1> HIDE DEF X, B, C, key, part, view, asked, got
<1>11. ItemsBy(X, C, key, part, asked, got)
  BY <1>5, <1>6, <1>7 DEF ItemsBy
<1>12. ItemsExpected(X) = Sum(C, asked) /\ ItemsPaid(X) = Sum(C, got)
  BY <1>0, <1>1, <1>2, <1>11, ItemGroups
<1> QED
  BY <1>8, <1>9, <1>10, <1>12 DEF view

\* Bills by class and rate
LEMMA OrdersAgree ==
  ASSUME ReportInv, NEW m, NEW f, f = [NoFilter EXCEPT !.month = m]
  PROVE  RevenueSummary(f).expected = SumOf(SaleOrders(f))
<1>0. ReportTyped
  BY DEF ReportInv
<1> DEFINE B == BillsIn(f)
           X == ItemsOn(B)
           shown == {x \in ItemIds : InMonth(f, bill[x[1]].month) /\ InClass(f, Item(x).class)}
           C == {<<x[1], Item(x).class, Item(x).rate>> : x \in shown}
           key == [x \in ItemIds |-> <<x[1], Item(x).class, Item(x).rate>>]
           amounts == [x \in ItemIds |-> Item(x).total]
           part == [r \in C |-> {x \in shown : r = <<x[1], Item(x).class, Item(x).rate>>}]
           view == SaleOrders(f)
<1>2. B \subseteq DOMAIN bill /\ X \subseteq ItemIds
  BY DEF BillsIn, ItemsOn
<1>3. shown = X
  <2>1. \A x : x \in X <=> x \in ItemIds /\ InMonth(f, bill[x[1]].month)
    BY <1>0, ItemFacts DEF BillsIn, ItemsOn
  <2>2. \A x : InClass(f, Item(x).class)
    BY MonthOnly
  <2>3. \A x : x \in shown <=> x \in ItemIds /\ InMonth(f, bill[x[1]].month)
    BY <2>2
  <2> HIDE DEF X, shown
  <2> QED
    BY <2>1, <2>3
<1>4. view = [r \in C |-> Sum(part[r], amounts)] /\ DOMAIN view = C
  BY DEF SaleOrders
<1>5. \A x \in shown : key[x] \in C
  OBVIOUS
<1>6. \A r \in C : \A x : x \in part[r] <=> x \in shown /\ key[x] = r
  OBVIOUS
<1>7. \A y \in C : \E x \in shown : key[x] = y
  OBVIOUS
<1>8. ItemsExpected(X) = Expected(B) /\ ItemsExpected(X) = Sum(X, amounts)
  <2>1. amounts = [x \in ItemIds |-> ItemAmount(x)]
    BY DEF ItemAmount
  <2> QED
    BY <1>2, <2>1, ItemsOfBills DEF ItemsExpected
<1>9. RevenueSummary(f).expected = Expected(B)
  BY MonthOnly DEF RevenueSummary
<1>10. \A x \in ItemIds : amounts[x] \in Int
  BY <1>0, ItemFacts
<1>11. SumOf(view) = Sum(C, view)
  BY <1>4 DEF SumOf
<1> HIDE DEF X, B, C, key, part, view, amounts, shown
<1>12. IsFiniteSet(X)
  BY <1>0, <1>2, ItemFacts, FS_Subset
<1>13. IsFiniteSet(C)
  BY <1>3, <1>7, <1>12, ImageFinite
<1>14. Keyed(X, C, key, part, amounts, view)
  BY <1>2, <1>3, <1>4, <1>5, <1>6, <1>10 DEF Keyed
<1>15. Sum(X, amounts) = Sum(C, view)
  BY <1>12, <1>13, <1>14, SumKeys
<1> QED
  BY <1>8, <1>9, <1>11, <1>15 DEF view

\* Bills by month
LEMMA MonthsAgree ==
  ASSUME ReportTyped
  PROVE  /\ RevenueSummary(NoFilter).expected = TotalExpected(RevenueByMonth(NoFilter))
         /\ RevenueSummary(NoFilter).paid = TotalPaid(RevenueByMonth(NoFilter))
<1> DEFINE B == DOMAIN bill
           key == [b \in B |-> bill[b].month]
           part == [m \in Month |-> {b \in B : bill[b].month = m}]
           view == RevenueByMonth(NoFilter)
           asked == [m \in DOMAIN view |-> view[m].expected]
           got == [m \in DOMAIN view |-> view[m].paid]
<1>1. [NoFilter EXCEPT !.month = None] = NoFilter /\ RevenueBills(NoFilter) = B
  BY NoMonth
<1>2. /\ DOMAIN view = Month
      /\ \A m \in Month : asked[m] = Expected(part[m]) /\ got[m] = Paid(part[m])
  BY <1>1 DEF RevenueByMonth
<1>3. \A b \in B : key[b] \in Month
  BY BillFields
<1>4. \A m \in Month : \A x : x \in part[m] <=> x \in B /\ key[x] = m
  OBVIOUS
<1>5. TotalExpected(view) = Sum(Month, asked) /\ TotalPaid(view) = Sum(Month, got)
  BY <1>2 DEF TotalExpected, TotalPaid, SumOf
<1>6. RevenueSummary(NoFilter).expected = Expected(B) /\ RevenueSummary(NoFilter).paid = Paid(B)
  BY <1>1 DEF RevenueSummary
<1>7. B \subseteq DOMAIN bill
  OBVIOUS
<1> HIDE DEF B, key, part, view, asked, got
<1>8. BillsBy(B, Month, key, part, asked, got)
  BY <1>2, <1>3, <1>4 DEF BillsBy
<1>9. Expected(B) = Sum(Month, asked) /\ Paid(B) = Sum(Month, got)
  BY <1>7, <1>8, ReportConstants, BillGroups
<1> QED
  BY <1>5, <1>6, <1>9 DEF view

\* Bills by period
LEMMA PeriodsAgree ==
  ASSUME ReportTyped
  PROVE  /\ RevenueSummary(NoFilter).expected = TotalExpected(PeriodStats)
         /\ RevenueSummary(NoFilter).paid = TotalPaid(PeriodStats)
<1> DEFINE B == DOMAIN bill
           C == {bill[b].period : b \in B}
           key == [b \in B |-> bill[b].period]
           part == [p \in C |-> {b \in B : bill[b].period = p}]
           view == PeriodStats
           asked == [p \in DOMAIN view |-> view[p].expected]
           got == [p \in DOMAIN view |-> view[p].paid]
<1>1. RevenueBills(NoFilter) = B
  BY NoMonth
<1>2. /\ DOMAIN view = C
      /\ \A p \in C : asked[p] = Expected(part[p]) /\ got[p] = Paid(part[p])
  BY DEF PeriodStats
<1>3. (\A b \in B : key[b] \in C) /\ (\A p \in C : \E b \in B : key[b] = p)
  OBVIOUS
<1>4. \A p \in C : \A x : x \in part[p] <=> x \in B /\ key[x] = p
  OBVIOUS
<1>5. TotalExpected(view) = Sum(C, asked) /\ TotalPaid(view) = Sum(C, got)
  BY <1>2 DEF TotalExpected, TotalPaid, SumOf
<1>6. RevenueSummary(NoFilter).expected = Expected(B) /\ RevenueSummary(NoFilter).paid = Paid(B)
  BY <1>1 DEF RevenueSummary
<1>7. B \subseteq DOMAIN bill /\ IsFiniteSet(B)
  BY ItemFacts
<1> HIDE DEF B, C, key, part, view, asked, got
<1>8. IsFiniteSet(C)
  BY <1>3, <1>7, ImageFinite
<1>9. BillsBy(B, C, key, part, asked, got)
  BY <1>2, <1>3, <1>4 DEF BillsBy
<1>10. Expected(B) = Sum(C, asked) /\ Paid(B) = Sum(C, got)
  BY <1>7, <1>8, <1>9, BillGroups
<1> QED
  BY <1>5, <1>6, <1>10 DEF view

\* What paid bills ask is what all of them are paid.
LEMMA PaidOnly ==
  ASSUME ReportTyped, NEW B, B \subseteq DOMAIN bill, NEW P, P = {b \in B : bill[b].paid}
  PROVE  Expected(P) = Paid(B) /\ Paid(P) = Paid(B)
<1> DEFINE f == [b \in DOMAIN bill |-> bill[b].total]
           g == [b \in DOMAIN bill |-> PaidAmount(b)]
<1>1. P \subseteq B /\ P \subseteq DOMAIN bill
  OBVIOUS
<1>2. IsFiniteSet(B) /\ IsFiniteSet(P) /\ \A b \in B : f[b] \in Int /\ g[b] \in Int
  BY <1>1, BillSums
<1>3. \A b \in P : f[b] = g[b]
  BY DEF PaidAmount
<1>4. \A b \in B : b \notin P => g[b] = 0
  BY DEF PaidAmount
<1>5. Expected(P) = Sum(P, f) /\ Paid(P) = Sum(P, g) /\ Paid(B) = Sum(B, g)
  BY DEF Expected, Paid
<1> HIDE DEF f, g
<1>6. Sum(P, f) = Sum(P, g)
  BY <1>2, <1>3, SumSame
<1>7. Sum(B, g) = Sum(P, g)
  BY <1>1, <1>2, <1>4, SumWithin
<1> QED
  BY <1>5, <1>6, <1>7

\* The months of the dashboard
LEMMA DashboardAgrees ==
  ASSUME ReportTyped, \A b \in DOMAIN bill : bill[b].month \in DOMAIN DashboardRevenue
  PROVE  /\ RevenueSummary(NoFilter).expected = TotalExpected(DashboardRevenue)
         /\ RevenueSummary(NoFilter).paid = TotalPaid(DashboardRevenue)
<1> DEFINE B == DOMAIN bill
           view == DashboardRevenue
           C == DOMAIN view
           key == [b \in B |-> bill[b].month]
           part == [m \in C |-> {b \in B : bill[b].month = m}]
           asked == [m \in DOMAIN view |-> view[m].expected]
           got == [m \in DOMAIN view |-> view[m].paid]
<1>1. RevenueBills(NoFilter) = B
  BY NoMonth
<1>2. /\ C \subseteq Month
      /\ \A m \in C : asked[m] = Expected(part[m])
                      /\ got[m] = Expected({b \in part[m] : bill[b].paid})
  BY DEF DashboardRevenue
<1>3. \A m \in C : got[m] = Paid(part[m])
  <2> TAKE m \in C
  <2> DEFINE Q == part[m]
             P == {b \in Q : bill[b].paid}
  <2>1. Q \subseteq DOMAIN bill /\ got[m] = Expected(P)
    BY <1>2
  <2>2. P = {b \in Q : bill[b].paid}
    OBVIOUS
  <2> HIDE DEF Q, P
  <2>3. Expected(P) = Paid(Q)
    BY <2>1, <2>2, PaidOnly
  <2> QED
    BY <2>1, <2>3 DEF Q
<1>4. \A b \in B : key[b] \in C
  OBVIOUS
<1>5. \A m \in C : \A x : x \in part[m] <=> x \in B /\ key[x] = m
  OBVIOUS
<1>6. TotalExpected(view) = Sum(C, asked) /\ TotalPaid(view) = Sum(C, got)
  BY DEF TotalExpected, TotalPaid, SumOf
<1>7. RevenueSummary(NoFilter).expected = Expected(B) /\ RevenueSummary(NoFilter).paid = Paid(B)
  BY <1>1 DEF RevenueSummary
<1>8. B \subseteq DOMAIN bill
  OBVIOUS
<1> HIDE DEF B, C, key, part, view, asked, got
<1>9. IsFiniteSet(C)
  BY <1>2, ReportConstants, FS_Subset
<1>10. BillsBy(B, C, key, part, asked, got)
  BY <1>2, <1>3, <1>4, <1>5 DEF BillsBy
<1>11. Expected(B) = Sum(C, asked) /\ Paid(B) = Sum(C, got)
  BY <1>8, <1>9, <1>10, BillGroups
<1> QED
  BY <1>6, <1>7, <1>11 DEF view

\* What the dashboard has as collected and as open
LEMMA DashboardMoneyAgrees ==
  ASSUME ReportTyped
  PROVE  DashboardMoney =
           [collected |-> RevenueSummary(NoFilter).paid,
            uncollected |-> RevenueSummary(NoFilter).expected - RevenueSummary(NoFilter).paid]
<1> DEFINE B == DOMAIN bill
           P == {b \in B : bill[b].paid}
           U == {b \in B : ~bill[b].paid}
           f == [b \in DOMAIN bill |-> bill[b].total]
           g == [b \in DOMAIN bill |-> Uncollected(b)]
           all == P \union U
<1>1. RevenueSummary(NoFilter).expected = Expected(B) /\ RevenueSummary(NoFilter).paid = Paid(B)
  BY NoMonth DEF RevenueSummary
<1>2. DashboardMoney = [collected |-> Paid(P), uncollected |-> Sum(U, g)]
  BY DEF DashboardMoney
<1>3. B \subseteq DOMAIN bill /\ P = {b \in B : bill[b].paid} /\ P \subseteq B /\ U \subseteq B
  OBVIOUS
<1>4. all = B /\ P \cap U = {}
  OBVIOUS
<1>5. \A b \in U : g[b] = f[b]
  <2> TAKE b \in U
  <2>1. bill[b].total \in Nat /\ PaidAmount(b) = 0
    BY BillFields DEF PaidAmount
  <2> QED
    BY <2>1 DEF Uncollected
<1>6. Expected(all) = Sum(all, f) /\ Expected(P) = Sum(P, f) /\ \A b \in B : f[b] = bill[b].total
  BY DEF Expected
<1> HIDE DEF B, P, U, f, g, all
<1>7. /\ IsFiniteSet(B) /\ IsFiniteSet(P) /\ IsFiniteSet(U) /\ \A b \in B : f[b] \in Int
      /\ Expected(B) \in Int /\ Paid(B) \in Int
  BY <1>3, <1>6, BillSums, FS_Subset
<1>8. Expected(P) = Paid(B) /\ Paid(P) = Paid(B)
  BY <1>3, PaidOnly
<1>9. Sum(U, g) = Sum(U, f)
  BY <1>5, <1>7, SumSame
<1>10. Sum(all, f) = Sum(P, f) + Sum(U, f)
  <2>1. \A x \in P \union U : f[x] \in Int
    BY <1>3, <1>7
  <2> QED
    BY <1>4, <1>7, <2>1, SumUnion DEF all
<1>11. Sum(U, f) \in Int
  BY <1>3, <1>7, SumInt
<1>12. Sum(U, g) = Expected(B) - Paid(B)
  <2>1. Expected(B) = Paid(B) + Sum(U, f)
    BY <1>4, <1>6, <1>8, <1>10
  <2> DEFINE e == Expected(B)
             p == Paid(B)
             u == Sum(U, f)
  <2>2. e \in Int /\ p \in Int /\ u \in Int /\ e = p + u /\ Sum(U, g) = u
    BY <1>7, <1>9, <1>11, <2>1
  <2> HIDE DEF e, p, u
  <2>3. u = e - p
    BY <2>2
  <2> QED
    BY <2>2, <2>3 DEF e, p
<1> QED
  BY <1>1, <1>2, <1>8, <1>12

\* What bills leave open
LEMMA OpenAmount ==
  ASSUME ReportTyped, NEW B, B \subseteq DOMAIN bill, NEW f,
         \A b \in DOMAIN bill : f[b] = bill[b].total - PaidAmount(b)
  PROVE  /\ IsFiniteSet(B) /\ (\A b \in B : f[b] \in Int)
         /\ Sum(B, f) = Expected(B) - Paid(B)
<1> DEFINE asked == [b \in DOMAIN bill |-> bill[b].total]
           got == [b \in DOMAIN bill |-> PaidAmount(b)]
<1>1. IsFiniteSet(B) /\ \A b \in B : asked[b] \in Int /\ got[b] \in Int
  BY BillSums
<1>2. \A b \in B : f[b] = asked[b] - got[b]
  OBVIOUS
<1>3. Expected(B) = Sum(B, asked) /\ Paid(B) = Sum(B, got)
  BY DEF Expected, Paid
<1> HIDE DEF asked, got
<1>4. \A b \in B : f[b] \in Int /\ got[b] \in Int /\ asked[b] = f[b] + got[b]
  BY <1>1, <1>2
<1>5. Sum(B, asked) = Sum(B, f) + Sum(B, got)
  BY <1>1, <1>4, SumAdd
<1>6. Sum(B, f) \in Int /\ Sum(B, got) \in Int
  BY <1>1, <1>4, SumInt
<1> QED
  BY <1>1, <1>3, <1>4, <1>5, <1>6

\* The debts of students in one Active class each
LEMMA DebtsAgree ==
  ASSUME ReportTyped, \A s \in Learner : Cardinality(ActiveRows(s)) = 1
  PROVE  RevenueSummary(NoFilter).expected - RevenueSummary(NoFilter).paid = SumOf(Debts(NoFilter))
<1> DEFINE B == DOMAIN bill
           Bills(s) == {b \in DOMAIN bill : bill[b].student = s /\ InMonth(NoFilter, bill[b].month)}
           C == {r \in Learner \X (Group \union {None}) :
                   Bills(r[1]) # {} /\ r[2] \in ActiveRows(r[1]) /\ InClass(NoFilter, r[2])}
           only == [s \in Learner |-> CHOOSE c : ActiveRows(s) = {c}]
           key == [b \in B |-> <<bill[b].student, only[bill[b].student]>>]
           part == [r \in C |-> Bills(r[1])]
           f == [b \in B |-> bill[b].total - PaidAmount(b)]
           view == Debts(NoFilter)
<1>1. RevenueSummary(NoFilter).expected = Expected(B) /\ RevenueSummary(NoFilter).paid = Paid(B)
  BY NoMonth DEF RevenueSummary
<1>2. /\ DOMAIN view = C /\ SumOf(view) = Sum(C, view)
      /\ \A r \in C : view[r] = Expected(part[r]) - Paid(part[r])
  BY DEF Debts, SumOf
<1>3. \A s \in Learner : ActiveRows(s) = {only[s]}
  <2> TAKE s \in Learner
  <2> DEFINE A == ActiveRows(s)
  <2>1. IsFiniteSet(A)
    <3>1. A \subseteq Group \union {None}
      BY DEF ActiveRows
    <3>2. IsFiniteSet(Group \union {None})
      BY ReportConstants, FS_Singleton, FS_Union
    <3> HIDE DEF A
    <3> QED
      BY <3>1, <3>2, FS_Subset
  <2>2. Cardinality(A) = 1
    OBVIOUS
  <2>3. \E c : A = {c}
    <3> HIDE DEF A
    <3> QED
      BY <2>1, <2>2, FS_Singleton
  <2> QED
    BY <2>3
<1>4. \A s : ActiveRows(s) \subseteq Group \union {None}
  BY DEF ActiveRows
<1>5. \A c : InClass(NoFilter, c)
  <2>1. NoFilter = [NoFilter EXCEPT !.month = None]
    BY NoMonth
  <2> QED
    BY <2>1, MonthOnly
<1>6. \A s : Bills(s) = {b \in B : bill[b].student = s}
  BY NoMonth
<1>7. \A b \in B : key[b] \in C
  <2> TAKE b \in B
  <2> DEFINE s == bill[b].student
  <2>1. s \in Learner
    BY BillFields
  <2>2. only[s] \in ActiveRows(s) /\ only[s] \in Group \union {None} /\ b \in Bills(s)
    BY <1>3, <1>4, <1>6, <2>1
  <2> DEFINE c == only[s]
             r == <<s, c>>
  <2>3. key[b] = r
    OBVIOUS
  <2>4. r[1] = s /\ r[2] = c /\ (s \in Learner /\ c \in Group \union {None} =>
                                    r \in Learner \X (Group \union {None}))
    <3> HIDE DEF s, c
    <3> QED
      OBVIOUS
  <2> HIDE DEF r, s, key, only, Bills
  <2>5. r \in Learner \X (Group \union {None}) /\ Bills(r[1]) # {} /\ r[2] \in ActiveRows(r[1])
        /\ InClass(NoFilter, r[2])
    BY <1>5, <2>1, <2>2, <2>4
  <2> QED
    BY <2>3, <2>5
<1>8. \A r \in C : \A x : x \in part[r] <=> x \in B /\ key[x] = r
  <2> TAKE r \in C
  <2> TAKE x
  <2>1. r[1] \in Learner /\ r = <<r[1], r[2]>> /\ r[2] = only[r[1]]
    BY <1>3
  <2>2. x \in part[r] <=> x \in B /\ bill[x].student = r[1]
    BY <1>6
  <2>3. x \in B => key[x] = <<bill[x].student, only[bill[x].student]>>
    OBVIOUS
  <2> HIDE DEF B, C, only, key, part
  <2> QED
    BY <2>1, <2>2, <2>3
<1>9. IsFiniteSet(C)
  <2>1. IsFiniteSet(Group \union {None})
    BY ReportConstants, FS_Singleton, FS_Union
  <2>2. IsFiniteSet(Learner \X (Group \union {None}))
    BY <2>1, ReportConstants, FS_Product
  <2>3. C \subseteq Learner \X (Group \union {None})
    OBVIOUS
  <2> HIDE DEF C
  <2> QED
    BY <2>2, <2>3, FS_Subset
<1>10. B \subseteq DOMAIN bill /\ (\A b \in DOMAIN bill : f[b] = bill[b].total - PaidAmount(b))
       /\ \A r \in C : part[r] \subseteq DOMAIN bill
  OBVIOUS
<1> HIDE DEF B, Bills, C, only, key, part, f, view
<1>11. /\ IsFiniteSet(B) /\ (\A b \in B : f[b] \in Int) /\ Sum(B, f) = Expected(B) - Paid(B)
       /\ \A r \in C : Sum(part[r], f) = view[r]
  BY <1>2, <1>10, OpenAmount
<1>12. Keyed(B, C, key, part, f, view)
  BY <1>7, <1>8, <1>11 DEF Keyed
<1>13. Sum(B, f) = Sum(C, view)
  BY <1>9, <1>11, <1>12, SumKeys
<1> QED
  BY <1>1, <1>2, <1>11, <1>13 DEF view

\* The same money on every page
LEMMA RevenueAgrees ==
  ASSUME ReportInv
  PROVE  RevenueViewsAgree
<1>0. ReportTyped
  BY DEF ReportInv
<1>1. \A m \in Month \union {None} :
        LET f == [NoFilter EXCEPT !.month = m]
        IN /\ RevenueSummary(f).expected = TotalExpected(RevenueByCenter(f))
           /\ RevenueSummary(f).paid = TotalPaid(RevenueByCenter(f))
           /\ RevenueSummary(f).expected = SumOf(SaleOrders(f))
  <2> TAKE m \in Month \union {None}
  <2> DEFINE f == [NoFilter EXCEPT !.month = m]
  <2>1. f = [NoFilter EXCEPT !.month = m]
    OBVIOUS
  <2> HIDE DEF f
  <2>2. /\ RevenueSummary(f).expected = TotalExpected(RevenueByCenter(f))
        /\ RevenueSummary(f).paid = TotalPaid(RevenueByCenter(f))
    BY <2>1, CentersAgree
  <2>3. RevenueSummary(f).expected = SumOf(SaleOrders(f))
    BY <2>1, OrdersAgree
  <2> QED
    BY <2>2, <2>3 DEF f
<1> QED
  BY <1>0, <1>1, MonthsAgree, PeriodsAgree, DashboardAgrees, DashboardMoneyAgrees, DebtsAgree
     DEF RevenueViewsAgree

\* The lessons of a bill, by class
LEMMA LessonFacts ==
  ASSUME ReportTyped
  PROVE  /\ IsFiniteSet(DOMAIN lesson)
         /\ \A i \in DOMAIN lesson :
              /\ lesson[i].class \in Group /\ lesson[i].student \in Learner
              /\ lesson[i].month \in Month /\ lesson[i].present \in BOOLEAN
              /\ lesson[i].bill \in 0..Len(bill) /\ lesson[i].amount \in Int
              /\ LessonCosts[i] \in Int
<1>1. DOMAIN lesson = 1..Len(lesson) /\ Len(lesson) \in Nat
  BY DEF ReportTyped
<1>2. IsFiniteSet(DOMAIN lesson)
  BY <1>1, FS_Interval
<1>3. \A i \in DOMAIN lesson : lesson[i] \in LessonRow /\ lesson[i].bill \in 0..Len(bill)
  BY DEF ReportTyped
<1>4. \A i \in DOMAIN lesson :
        /\ lesson[i].class \in Group /\ lesson[i].student \in Learner
        /\ lesson[i].month \in Month /\ lesson[i].present \in BOOLEAN /\ lesson[i].amount \in Int
  BY <1>3 DEF LessonRow
<1>5. \A i \in DOMAIN lesson : LessonCosts[i] \in Int
  BY <1>4 DEF LessonCosts
<1> QED
  BY <1>2, <1>3, <1>4, <1>5

\* The lessons of a bill and its adjustment are its total.
LEMMA LessonsOfBill ==
  ASSUME ReportInv, NEW b \in DOMAIN bill
  PROVE  SumOf(BillLessons(b)) + bill[b].adjusted = bill[b].total
<1>0. ReportTyped /\ BillAdds(b)
  BY DEF ReportInv
<1> DEFINE L == {j \in DOMAIN lesson : lesson[j].bill = b}
           costs == LessonCosts
           sheet == BillLessons(b)
           class == [i \in DOMAIN lesson |-> lesson[i].class]
           lessons == [c \in Group |-> LessonsOf(b, c)]
           K == DOMAIN bill[b].items
           totals == ItemTotals(b)
           sort == [k \in K |-> bill[b].items[k].class]
           items == [c \in Group |-> ItemsIn(b, c)]
           first == bill[b].items[1].class
           extra == bill[b].adjusted
           added == [c \in Group |-> IF first = c THEN extra ELSE 0]
           f == [c \in Group |-> Sum(lessons[c], costs)]
           g == [c \in Group |-> Sum(items[c], totals)]
           total == bill[b].total
<1>1. IsFiniteSet(L) /\ L \subseteq DOMAIN lesson
  BY <1>0, LessonFacts, FS_Subset
<1>2. SumOf(sheet) = Sum(L, costs)
  <2>1. DOMAIN sheet = L /\ SumOf(sheet) = Sum(L, sheet)
    BY DEF BillLessons, SumOf
  <2>2. \A i \in L : sheet[i] = costs[i]
    BY DEF BillLessons, LessonCosts
  <2> HIDE DEF sheet, L, costs
  <2>3. Sum(L, sheet) = Sum(L, costs)
    BY <1>1, <2>2, SumSame
  <2> QED
    BY <2>1, <2>3
<1>3. \A i \in L : costs[i] \in Int /\ class[i] \in Group
  BY <1>0, LessonFacts
<1>4. \A c \in Group : \A x : x \in lessons[c] <=> x \in L /\ class[x] = c
  <2> TAKE c \in Group
  <2> TAKE x
  <2>1. x \in lessons[c] <=> x \in DOMAIN lesson /\ lesson[x].bill = b /\ lesson[x].class = c
    BY DEF LessonsOf
  <2> QED
    BY <2>1
<1>5. IsFiniteSet(K) /\ \A k \in K : totals[k] \in Int /\ sort[k] \in Group
  BY <1>0, BillFields DEF ItemTotals
<1>6. \A c \in Group : \A x : x \in items[c] <=> x \in K /\ sort[x] = c
  BY DEF ItemsIn
<1>7. total = Sum(K, totals) /\ extra \in Int /\ first \in Group
  BY <1>0, BillFields DEF BillAdds
<1>8. \A c \in Group : g[c] = f[c] + added[c] /\ added[c] \in Int /\ (c # first => added[c] = 0)
  <2> TAKE c \in Group
  <2>1. Sum(ItemsIn(b, c), ItemTotals(b)) =
          Sum(LessonsOf(b, c), LessonCosts) + (IF first = c THEN extra ELSE 0)
    BY <1>0 DEF BillAdds
  <2>2. added[c] = (IF first = c THEN extra ELSE 0)
    OBVIOUS
  <2>3. g[c] = Sum(ItemsIn(b, c), ItemTotals(b)) /\ f[c] = Sum(LessonsOf(b, c), LessonCosts)
    OBVIOUS
  <2> HIDE DEF added, first, extra, f, g
  <2> QED
    BY <1>7, <2>1, <2>2, <2>3
<1>9. added[first] = extra
  BY <1>7
<1>10. \A c \in Group : f[c] = Sum(lessons[c], costs) /\ g[c] = Sum(items[c], totals)
  OBVIOUS
<1> HIDE DEF L, costs, sheet, class, lessons, K, totals, sort, items, added, f, g, total, first, extra
<1>11. Keyed(L, Group, class, lessons, costs, f)
  BY <1>3, <1>4, <1>10 DEF Keyed
<1>12. Keyed(K, Group, sort, items, totals, g)
  BY <1>5, <1>6, <1>10 DEF Keyed
<1>13. Sum(L, costs) = Sum(Group, f) /\ Sum(K, totals) = Sum(Group, g)
  BY <1>1, <1>5, <1>11, <1>12, SumKeys, ReportConstants
<1>14. \A c \in Group : f[c] \in Int
  <2> TAKE c \in Group
  <2>1. lessons[c] \subseteq L
    BY <1>4
  <2>2. IsFiniteSet(lessons[c]) /\ \A x \in lessons[c] : costs[x] \in Int
    BY <1>1, <1>3, <2>1, FS_Subset
  <2> DEFINE s == lessons[c]
  <2> HIDE DEF s
  <2>3. IsFiniteSet(s) /\ \A x \in s : costs[x] \in Int
    BY <2>2 DEF s
  <2>4. Sum(s, costs) \in Int
    BY <2>3, SumInt
  <2> QED
    BY <1>10, <2>4 DEF s
<1>15. Sum(Group, added) = extra
  <2> DEFINE T == {first}
  <2>1. T \subseteq Group /\ \A c \in Group : added[c] \in Int /\ (c \notin T => added[c] = 0)
    BY <1>7, <1>8
  <2> HIDE DEF T
  <2>2. Sum(Group, added) = Sum(T, added)
    BY <2>1, ReportConstants, SumWithin
  <2>3. Sum({first}, added) = added[first]
    BY <1>7, <1>9, SumSingle
  <2> QED
    BY <1>9, <2>2, <2>3 DEF T
<1>16. Sum(Group, g) = Sum(Group, f) + Sum(Group, added)
  <2>1. \A c \in Group : f[c] \in Int /\ added[c] \in Int /\ g[c] = f[c] + added[c]
    BY <1>8, <1>14
  <2> QED
    BY <2>1, ReportConstants, SumAdd
<1> QED
  BY <1>2, <1>7, <1>13, <1>15, <1>16 DEF sheet, extra, total

\* The pages of a student repeat the sheets.
LEMMA SheetsTold ==
  ASSUME ReportInv
  PROVE  SheetsAgree
<1> SUFFICES ASSUME NEW b \in DOMAIN bill
             PROVE  LET sheet == PeriodSheets(bill[b].period)[b]
                        s == bill[b].student
                    IN /\ MyTuition(s)[b] = sheet
                       /\ TuitionHistory(s)[b].items = sheet.items
                       /\ SumOf([i \in DOMAIN sheet.items |-> sheet.items[i].total]) = sheet.total
                       /\ SumOf(sheet.lessons) + bill[b].adjusted = sheet.total
  BY DEF SheetsAgree
<1> DEFINE s == bill[b].student
           sheet == PeriodSheets(bill[b].period)[b]
<1>1. sheet = BillSheet(b)
  BY DEF PeriodSheets
<1>2. MyTuition(s)[b] = BillSheet(b) /\ TuitionHistory(s)[b].items = bill[b].items
  BY DEF MyTuition, TuitionHistory
<1>3. /\ BillSheet(b).items = bill[b].items /\ BillSheet(b).total = bill[b].total
      /\ BillSheet(b).lessons = BillLessons(b)
  BY DEF BillSheet
<1>4. SumOf([i \in DOMAIN bill[b].items |-> bill[b].items[i].total]) = bill[b].total
  <2>1. DOMAIN ItemTotals(b) = DOMAIN bill[b].items
        /\ ItemTotals(b) = [i \in DOMAIN bill[b].items |-> bill[b].items[i].total]
    BY DEF ItemTotals
  <2>2. bill[b].total = Sum(DOMAIN bill[b].items, ItemTotals(b))
    BY DEF ReportInv, BillAdds
  <2> QED
    BY <2>1, <2>2 DEF SumOf
<1>5. SumOf(BillLessons(b)) + bill[b].adjusted = bill[b].total
  BY LessonsOfBill
<1> QED
  BY <1>1, <1>2, <1>3, <1>4, <1>5

\* The items of a class, over all bills
LEMMA ClassBilled ==
  ASSUME ReportInv, NEW c \in Group,
         \A i \in DOMAIN lesson : lesson[i].class = c => lesson[i].bill # 0,
         \A x \in ItemIds : Item(x).class = c => bill[x[1]].adjusted = 0
  PROVE  Sum({i \in DOMAIN lesson : lesson[i].class = c}, LessonCosts) =
           ItemsExpected({x \in ItemIds : Item(x).class = c})
<1>0. ReportTyped
  BY DEF ReportInv
<1> DEFINE L == {i \in DOMAIN lesson : lesson[i].class = c}
           X == {x \in ItemIds : Item(x).class = c}
           B == DOMAIN bill
           costs == LessonCosts
           amounts == [x \in ItemIds |-> ItemAmount(x)]
           onBill == [i \in DOMAIN lesson |-> lesson[i].bill]
           ofBill == [x \in ItemIds |-> x[1]]
           lessons == [b \in B |-> LessonsOf(b, c)]
           items == [b \in B |-> {x \in X : x[1] = b}]
           f == [b \in B |-> Sum(lessons[b], costs)]
           g == [b \in B |-> Sum(items[b], amounts)]
<1>1. IsFiniteSet(L) /\ IsFiniteSet(X) /\ IsFiniteSet(B)
  BY <1>0, LessonFacts, ItemFacts, FS_Subset
<1>2. \A i \in L : costs[i] \in Int /\ onBill[i] \in B
  <2> TAKE i \in L
  <2>1. lesson[i].bill \in 0..Len(bill) /\ lesson[i].bill # 0 /\ costs[i] \in Int
    BY <1>0, LessonFacts
  <2>2. B = 1..Len(bill) /\ Len(bill) \in Nat
    BY <1>0 DEF ReportTyped
  <2> QED
    BY <2>1, <2>2
<1>3. \A x \in X : amounts[x] \in Int /\ ofBill[x] \in B
  BY <1>0, ItemNumbers, ItemFacts
<1>4. \A b \in B : \A x : x \in lessons[b] <=> x \in L /\ onBill[x] = b
  <2> TAKE b \in B
  <2> TAKE x
  <2>1. x \in lessons[b] <=> x \in DOMAIN lesson /\ lesson[x].bill = b /\ lesson[x].class = c
    BY DEF LessonsOf
  <2> QED
    BY <2>1
<1>5. \A b \in B : \A x : x \in items[b] <=> x \in X /\ ofBill[x] = b
  OBVIOUS
<1>6. \A b \in B : f[b] = Sum(lessons[b], costs) /\ g[b] = Sum(items[b], amounts)
  OBVIOUS
<1>7. \A b \in B : g[b] = f[b]
  <2> TAKE b \in B
  <2> DEFINE K == ItemsIn(b, c)
             Y == items[b]
             totals == ItemTotals(b)
             name == [k \in K |-> <<b, k>>]
             extra == IF bill[b].items[1].class = c THEN bill[b].adjusted ELSE 0
  <2>1. IsFiniteSet(K) /\ IsFiniteSet(Y) /\ K \subseteq DOMAIN bill[b].items
    <3>1. IsFiniteSet(DOMAIN bill[b].items)
      BY <1>0, BillFields
    <3>2. K \subseteq DOMAIN bill[b].items /\ Y \subseteq X
      BY DEF ItemsIn
    <3> HIDE DEF K, Y
    <3> QED
      BY <1>1, <3>1, <3>2, FS_Subset
  <2>2. \A k \in DOMAIN bill[b].items : <<b, k>> \in ItemIds /\ Item(<<b, k>>) = bill[b].items[k]
    BY DEF ItemIds, Item
  <2>3. \A k \in K : name[k] \in Y /\ totals[k] = amounts[name[k]]
    BY <2>1, <2>2 DEF ItemsIn, ItemTotals, ItemAmount
  <2>4. \A y \in Y : amounts[y] \in Int /\ \E k \in K : name[k] = y
    <3> TAKE y \in Y
    <3>1. y \in ItemIds /\ y[1] = b /\ Item(y).class = c
      OBVIOUS
    <3>2. y = <<b, y[2]>> /\ y[2] \in DOMAIN bill[b].items
      BY <3>1, <1>0, ItemFacts DEF IdsOf
    <3>3. y[2] \in K
      BY <3>1, <3>2 DEF ItemsIn, Item
    <3> QED
      BY <1>3, <3>2, <3>3
  <2>5. \A k, j \in K : name[k] = name[j] => k = j
    OBVIOUS
  <2>6. extra = 0
    <3>1. 1 \in DOMAIN bill[b].items
      BY <1>0, BillFields
    <3>2. bill[b].items[1].class = c => bill[b].adjusted = 0
      BY <2>2, <3>1
    <3> QED
      BY <3>2
  <2>7. Sum(K, totals) = Sum(lessons[b], costs) + extra
    BY DEF ReportInv, BillAdds
  <2>8. Sum(lessons[b], costs) \in Int
    <3> DEFINE M == lessons[b]
    <3>1. M \subseteq L
      BY <1>4
    <3> HIDE DEF M, L, costs, onBill
    <3>2. IsFiniteSet(M) /\ \A x \in M : costs[x] \in Int
      BY <1>1, <1>2, <3>1, FS_Subset
    <3> QED
      BY <3>2, SumInt DEF M
  <2> HIDE DEF K, Y, totals, name, extra, lessons, costs, amounts, items
  <2>9. Sum(K, totals) = Sum(Y, amounts)
    BY <2>1, <2>3, <2>4, <2>5, SumRenamed
  <2> QED
    BY <1>6, <2>6, <2>7, <2>8, <2>9 DEF Y
<1>8. ItemsExpected(X) = Sum(X, amounts)
  BY DEF ItemsExpected
<1> HIDE DEF L, X, B, costs, amounts, onBill, ofBill, lessons, items, f, g
<1>9. Keyed(L, B, onBill, lessons, costs, f)
  BY <1>2, <1>4, <1>6 DEF Keyed
<1>10. Keyed(X, B, ofBill, items, amounts, g)
  BY <1>3, <1>5, <1>6 DEF Keyed
<1>11. Sum(L, costs) = Sum(B, f)
  BY <1>1, <1>9, SumKeys
<1>12. Sum(X, amounts) = Sum(B, g)
  BY <1>1, <1>10, SumKeys
<1>13. Sum(B, g) = Sum(B, f)
  BY <1>1, <1>7, SumSame
<1> QED
  BY <1>8, <1>11, <1>12, <1>13 DEF L, X, costs

\* Attendance by class shows what is billed.
LEMMA TuitionTold ==
  ASSUME ReportInv
  PROVE  TuitionShownIsBilled
<1>0. ReportTyped
  BY DEF ReportInv
<1> SUFFICES ASSUME NEW c \in Group,
                    \A i \in DOMAIN lesson : lesson[i].class = c => lesson[i].bill # 0,
                    \A x \in ItemIds : Item(x).class = c => bill[x[1]].adjusted = 0
             PROVE  LET f == [NoFilter EXCEPT !.classes = {c}]
                    IN TuitionShown(f, c) = RevenueByCenter(f)[CenterOf[c]].expected
  BY DEF TuitionShownIsBilled
<1> DEFINE f == [NoFilter EXCEPT !.classes = {c}]
           L == {i \in DOMAIN lesson : lesson[i].class = c}
           P == {i \in LessonsShown(f) : lesson[i].class = c /\ lesson[i].present}
           shown == [i \in DOMAIN lesson |-> CHOOSE r \in SessionRates(i) : TRUE]
           X == {x \in ItemIds : Item(x).class = c}
           Y == {x \in ItemIds : /\ InMonth(f, bill[x[1]].month) /\ InClass(f, Item(x).class)
                                 /\ CenterOf[Item(x).class] = CenterOf[c]}
           costs == LessonCosts
<1>1. f = [month |-> None, center |-> None, classes |-> {c}]
  <2> DEFINE C == {c}
             none == {}
  <2> HIDE DEF C, none
  <2>1. [[month |-> None, center |-> None, classes |-> none] EXCEPT !.classes = C]
        = [month |-> None, center |-> None, classes |-> C]
    OBVIOUS
  <2> QED
    BY <2>1, Zenon DEF NoFilter, C, none
<1>2. (\A m : InMonth(f, m)) /\ \A d : InClass(f, d) <=> d = c
  BY <1>1 DEF InMonth, InClass
<1>3. P = {i \in DOMAIN lesson : lesson[i].class = c /\ lesson[i].present}
  BY <1>2 DEF LessonsShown
<1>4. TuitionShown(f, c) = Sum(P, shown)
  BY DEF TuitionShown
<1>5. RevenueByCenter(f)[CenterOf[c]].expected = ItemsExpected(Y)
  BY DEF RevenueByCenter
<1>6. X = Y
  <2>1. \A x \in ItemIds : InMonth(f, bill[x[1]].month) /\ (InClass(f, Item(x).class) <=> Item(x).class = c)
    BY <1>2
  <2> QED
    BY <2>1
<1>7. \A i \in P : shown[i] = costs[i]
  <2> TAKE i \in P
  <2>1. i \in DOMAIN lesson /\ lesson[i].class = c /\ lesson[i].present
    BY <1>3
  <2>2. SessionRates(i) = {lesson[i].amount}
    BY <2>1 DEF SessionRates
  <2> QED
    BY <2>1, <2>2 DEF LessonCosts
<1>8. P \subseteq L /\ \A i \in L : costs[i] \in Int /\ (i \notin P => costs[i] = 0)
  <2>1. P \subseteq L
    BY <1>3
  <2>2. \A i \in L : costs[i] \in Int
    BY <1>0, LessonFacts
  <2>3. \A i \in L : i \notin P => costs[i] = 0
    BY <1>3 DEF LessonCosts
  <2> QED
    BY <2>1, <2>2, <2>3
<1>9. Sum(L, costs) = ItemsExpected(X)
  BY ClassBilled
<1>10. IsFiniteSet(L)
  BY <1>0, LessonFacts, FS_Subset
<1> HIDE DEF f, L, P, shown, X, Y, costs
<1>11. IsFiniteSet(P)
  BY <1>8, <1>10, FS_Subset
<1>12. Sum(P, shown) = Sum(P, costs)
  BY <1>7, <1>11, SumSame
<1>13. Sum(L, costs) = Sum(P, costs)
  BY <1>8, <1>10, SumWithin
<1>14. TuitionShown(f, c) = RevenueByCenter(f)[CenterOf[c]].expected
  BY <1>4, <1>5, <1>6, <1>9, <1>12, <1>13
<1> QED
  BY <1>14 DEF f

\* The items of wages
LEMMA WageFacts ==
  ASSUME ReportTyped
  PROVE  /\ IsFiniteSet(DOMAIN wage) /\ IsFiniteSet(WageItemIds)
         /\ \A x \in WageItemIds :
              /\ x[1] \in DOMAIN wage /\ WageItem(x).amount \in Int
              /\ RoleOf(x) \in {"teacher", "assistant"}
         /\ \A w \in DOMAIN wage : wage[w].month \in Month /\ wage[w].paid \in BOOLEAN
<1>1. \A w \in DOMAIN wage : wage[w] \in WageRow
  BY DEF ReportTyped
<1>2. \A w \in DOMAIN wage :
        /\ wage[w].month \in Month /\ wage[w].paid \in BOOLEAN
        /\ wage[w].items \in Seq([class : Group \union {None}, role : {"teacher", "assistant", None},
                                  amount : Int])
  BY <1>1 DEF WageRow
<1>3. IsFiniteSet(DOMAIN wage)
  <2>1. DOMAIN wage = 1..Len(wage) /\ Len(wage) \in Nat
    BY DEF ReportTyped
  <2> QED
    BY <2>1, FS_Interval
<1> DEFINE ids == [w \in DOMAIN wage |-> {w} \X DOMAIN wage[w].items]
           T == {{w} \X DOMAIN wage[w].items : w \in DOMAIN wage}
<1>4. ASSUME NEW w \in DOMAIN wage
      PROVE  /\ IsFiniteSet(ids[w])
             /\ \A k \in DOMAIN wage[w].items :
                  /\ wage[w].items[k].amount \in Int
                  /\ wage[w].items[k].role \in {"teacher", "assistant", None}
  <2> DEFINE items == wage[w].items
             K == DOMAIN items
             ItemOfWage == [class : Group \union {None}, role : {"teacher", "assistant", None}, amount : Int]
  <2>1. items \in Seq(ItemOfWage)
    BY <1>2
  <2>2. K = 1..Len(items) /\ Len(items) \in Nat /\ \A k \in K : items[k] \in ItemOfWage
    <3> HIDE DEF ItemOfWage, items
    <3> QED
      BY <2>1
  <2>3. IsFiniteSet(K) /\ IsFiniteSet({w})
    <3> DEFINE n == Len(items)
    <3>1. n \in Nat /\ K = 1..n
      BY <2>2
    <3> HIDE DEF K, items, n
    <3>2. 1 \in Int /\ n \in Int
      BY <3>1
    <3>3. IsFiniteSet(1..n)
      BY <3>2, FS_Interval
    <3> QED
      BY <3>1, <3>3, FS_Singleton
  <2>4. IsFiniteSet({w} \X K)
    <3> HIDE DEF K
    <3> QED
      BY <2>3, FS_Product
  <2>5. \A k \in K : items[k].amount \in Int /\ items[k].role \in {"teacher", "assistant", None}
    <3> HIDE DEF K, items
    <3> QED
      BY <2>2
  <2> QED
    BY <2>4, <2>5
<1>5. IsFiniteSet(UNION T)
  <2>1. \A y \in T : \E w \in DOMAIN wage : ids[w] = y
    OBVIOUS
  <2>2. \A y \in T : IsFiniteSet(y)
    BY <1>4
  <2> HIDE DEF T, ids
  <2>3. IsFiniteSet(T)
    BY <1>3, <2>1, ImageFinite
  <2> QED
    BY <2>2, <2>3, FS_UNION
<1>6. WageItemIds = UNION T
  BY DEF WageItemIds
<1>7. \A x \in WageItemIds : x[1] \in DOMAIN wage /\ x[2] \in DOMAIN wage[x[1]].items
  <2> TAKE x \in WageItemIds
  <2>1. PICK w \in DOMAIN wage : x \in {w} \X DOMAIN wage[w].items
    BY DEF WageItemIds
  <2> QED
    BY <2>1
<1>8. \A x \in WageItemIds : WageItem(x).amount \in Int /\ RoleOf(x) \in {"teacher", "assistant"}
  <2> TAKE x \in WageItemIds
  <2>1. WageItem(x).amount \in Int /\ WageItem(x).role \in {"teacher", "assistant", None}
    BY <1>4, <1>7 DEF WageItem
  <2> QED
    BY <2>1 DEF RoleOf
<1> QED
  BY <1>2, <1>3, <1>5, <1>6, <1>7, <1>8

\* The items of wages grouped by a key
WagesBy(X, C, key, part, total) ==
  /\ \A x \in X : key[x] \in C
  /\ \A c \in C : total[c] = WageAmounts(part[c])
  /\ \A c \in C : \A x : x \in part[c] <=> x \in X /\ key[x] = c

\* They add up.
LEMMA WageGroups ==
  ASSUME ReportTyped, NEW X, X \subseteq WageItemIds, NEW C, IsFiniteSet(C),
         NEW key, NEW part, NEW total, WagesBy(X, C, key, part, total)
  PROVE  WageAmounts(X) = Sum(C, total)
<1> DEFINE f == [x \in WageItemIds |-> WageItem(x).amount]
<1>1. IsFiniteSet(X) /\ \A x \in X : f[x] \in Int
  BY WageFacts, FS_Subset
<1>2. WageAmounts(X) = Sum(X, f) /\ \A c \in C : total[c] = Sum(part[c], f)
  BY DEF WageAmounts, WagesBy
<1> HIDE DEF f
<1>3. Keyed(X, C, key, part, f, total)
  BY <1>1, <1>2 DEF Keyed, WagesBy
<1> QED
  BY <1>1, <1>2, <1>3, SumKeys

\* Two parts of the items
LEMMA WageHalves ==
  ASSUME ReportTyped, NEW X, X \subseteq WageItemIds, NEW Y, Y \subseteq X, NEW Z, Z = X \ Y
  PROVE  /\ WageAmounts(X) = WageAmounts(Y) + WageAmounts(Z)
         /\ WageAmounts(Y) \in Int /\ WageAmounts(Z) \in Int
<1> DEFINE f == [x \in WageItemIds |-> WageItem(x).amount]
           all == Y \union Z
<1>1. \A x \in X : f[x] \in Int
  BY WageFacts
<1>2. all = X /\ Y \cap Z = {} /\ Z \subseteq X
  OBVIOUS
<1>3. IsFiniteSet(Y) /\ IsFiniteSet(Z)
  BY <1>2, WageFacts, FS_Subset
<1>4. WageAmounts(all) = Sum(all, f) /\ WageAmounts(Y) = Sum(Y, f) /\ WageAmounts(Z) = Sum(Z, f)
  BY DEF WageAmounts
<1> HIDE DEF f
<1>5. (\A x \in Y \union Z : f[x] \in Int) /\ (\A x \in Y : f[x] \in Int) /\ \A x \in Z : f[x] \in Int
  BY <1>1, <1>2
<1>6. Sum(Y \union Z, f) = Sum(Y, f) + Sum(Z, f)
  BY <1>2, <1>3, <1>5, SumUnion
<1>7. Sum(Y, f) \in Int /\ Sum(Z, f) \in Int
  BY <1>3, <1>5, SumInt
<1> HIDE DEF all
<1>8. WageAmounts(X) = WageAmounts(Y) + WageAmounts(Z)
  BY <1>2, <1>4, <1>6 DEF all
<1> QED
  BY <1>4, <1>7, <1>8

\* No filter leaves all items.
LEMMA AllWages ==
  WageItems(NoFilter) = WageItemIds
<1>1. \A m : InMonth(NoFilter, m)
  BY NoMonth
<1>2. \A c : InClass(NoFilter, c)
  BY NoMonth, MonthOnly
<1> QED
  BY <1>1, <1>2 DEF WageItems

\* The wages of some rows are their items'.
LEMMA WagesOfRows ==
  ASSUME ReportTyped, NEW W, W \subseteq DOMAIN wage
  PROVE  WageTotals(W) = WageAmounts({x \in WageItemIds : x[1] \in W})
<1> DEFINE X == {x \in WageItemIds : x[1] \in W}
           key == [x \in WageItemIds |-> x[1]]
           part == [w \in W |-> {x \in WageItemIds : x[1] = w}]
           total == [w \in DOMAIN wage |-> WageTotal(w)]
<1>1. WageTotals(W) = Sum(W, total) /\ X \subseteq WageItemIds
  BY DEF WageTotals
<1>2. \A w \in W : total[w] = WageAmounts(part[w])
  BY DEF WageTotal
<1>3. (\A x \in X : key[x] \in W) /\ \A w \in W : \A x : x \in part[w] <=> x \in X /\ key[x] = w
  OBVIOUS
<1>4. IsFiniteSet(W)
  BY WageFacts, FS_Subset
<1> HIDE DEF X, key, part, total
<1>5. WagesBy(X, W, key, part, total)
  BY <1>2, <1>3 DEF WagesBy
<1>6. WageAmounts(X) = Sum(W, total)
  BY <1>1, <1>4, <1>5, WageGroups
<1> QED
  BY <1>1, <1>6 DEF X

\* Salaries by month
LEMMA SalaryMonths ==
  ASSUME ReportTyped, NEW r \in {"teacher", "assistant"}
  PROVE  SalarySummary(NoFilter).total[r] =
           SumOf([m \in Month |-> SalaryByMonth(NoFilter)[m][r]])
<1> DEFINE X == {x \in WageItemIds : RoleOf(x) = r}
           key == [x \in WageItemIds |-> wage[x[1]].month]
           part == [m \in Month |-> {x \in WageItemIds : wage[x[1]].month = m /\ RoleOf(x) = r}]
           total == [m \in Month |-> SalaryByMonth(NoFilter)[m][r]]
<1>1. [NoFilter EXCEPT !.month = None] = NoFilter /\ WageItems(NoFilter) = WageItemIds
  BY NoMonth, AllWages
<1>2. \A m \in Month : total[m] = WageAmounts(part[m])
  BY <1>1 DEF SalaryByMonth
<1>3. SalarySummary(NoFilter).total[r] = WageAmounts(X)
  BY <1>1 DEF SalarySummary
<1>4. (\A x \in X : key[x] \in Month) /\ X \subseteq WageItemIds
  BY WageFacts
<1>5. \A m \in Month : \A x : x \in part[m] <=> x \in X /\ key[x] = m
  OBVIOUS
<1>6. SumOf(total) = Sum(Month, total)
  BY DEF SumOf
<1> HIDE DEF X, key, part, total
<1>7. WagesBy(X, Month, key, part, total)
  BY <1>2, <1>4, <1>5 DEF WagesBy
<1>8. WageAmounts(X) = Sum(Month, total)
  BY <1>4, <1>7, ReportConstants, WageGroups
<1> QED
  BY <1>3, <1>6, <1>8 DEF total

\* Salaries by teacher, and of one
LEMMA SalaryTeachers ==
  ASSUME ReportTyped
  PROVE  LET all == SalarySummary(NoFilter)
             byTeacher == SalaryByTeacher(NoFilter)
         IN /\ all.total["teacher"] + all.total["assistant"] =
                 SumOf([t \in DOMAIN byTeacher |-> byTeacher[t].total])
            /\ all.paid = TotalPaid(byTeacher) /\ all.paid = PaidSalaries
            /\ \A t \in DOMAIN byTeacher :
                 SalaryHistory(t) = [paid |-> byTeacher[t].paid,
                                     pending |-> byTeacher[t].total - byTeacher[t].paid]
<1> DEFINE all == SalarySummary(NoFilter)
           view == SalaryByTeacher(NoFilter)
           X == WageItemIds
           C == {wage[w].teacher : w \in DOMAIN wage}
           P == {x \in X : wage[x[1]].paid}
           T == {x \in X : RoleOf(x) = "teacher"}
           A == {x \in X : RoleOf(x) = "assistant"}
           key == [x \in X |-> wage[x[1]].teacher]
           part == [t \in C |-> {x \in X : wage[x[1]].teacher = t}]
           paidPart == [t \in C |-> {x \in part[t] : wage[x[1]].paid}]
           total == [t \in DOMAIN view |-> view[t].total]
           paid == [t \in DOMAIN view |-> view[t].paid]
<1>1. WageItems(NoFilter) = X
  BY AllWages
<1>2. DOMAIN view = C /\ \A t \in C : total[t] = WageAmounts(part[t]) /\ paid[t] = WageAmounts(paidPart[t])
  BY <1>1 DEF SalaryByTeacher
<1>3. /\ all.total["teacher"] = WageAmounts(T) /\ all.total["assistant"] = WageAmounts(A)
      /\ all.paid = WageAmounts(P)
  BY <1>1 DEF SalarySummary
<1>4. T \subseteq X /\ A = X \ T /\ P \subseteq X
  BY WageFacts
<1>5. \A x \in X : key[x] \in C
  BY WageFacts
<1>6. /\ \A t \in C : \A x : x \in part[t] <=> x \in X /\ key[x] = t
      /\ \A t \in C : \A x : x \in paidPart[t] <=> x \in P /\ key[x] = t
  OBVIOUS
<1>7. IsFiniteSet(C)
  <2> DEFINE whose == [w \in DOMAIN wage |-> wage[w].teacher]
  <2>1. \A y \in C : \E w \in DOMAIN wage : whose[w] = y
    OBVIOUS
  <2> HIDE DEF C, whose
  <2> QED
    BY <2>1, WageFacts, ImageFinite
<1>8. SumOf(total) = Sum(C, total) /\ TotalPaid(view) = Sum(C, paid)
  BY <1>2 DEF SumOf, TotalPaid
<1>9. PaidSalaries = WageAmounts(P)
  <2> DEFINE W == {w \in DOMAIN wage : wage[w].paid}
             Y == {x \in X : x[1] \in W}
  <2>1. W \subseteq DOMAIN wage /\ PaidSalaries = WageTotals(W)
    BY DEF PaidSalaries
  <2>2. Y = P
    BY WageFacts
  <2>3. WageTotals(W) = WageAmounts(Y)
    <3> HIDE DEF W
    <3> QED
      BY <2>1, WagesOfRows
  <2> QED
    BY <2>1, <2>2, <2>3
<1>10. \A t \in C : SalaryHistory(t) = [paid |-> view[t].paid, pending |-> view[t].total - view[t].paid]
  <2> TAKE t \in C
  <2> DEFINE W == {w \in DOMAIN wage : wage[w].teacher = t}
             WP == {w \in W : wage[w].paid}
             WU == {w \in W : ~wage[w].paid}
             Y == part[t]
             YP == paidPart[t]
             YU == Y \ YP
             XP == {x \in WageItemIds : x[1] \in WP}
             XU == {x \in WageItemIds : x[1] \in WU}
  <2>1. SalaryHistory(t) = [paid |-> WageTotals(WP), pending |-> WageTotals(WU)]
    BY DEF SalaryHistory
  <2>2. WP \subseteq DOMAIN wage /\ WU \subseteq DOMAIN wage
    OBVIOUS
  <2>3. XP = YP /\ XU = YU
    BY WageFacts
  <2>4. WageTotals(WP) = WageAmounts(XP) /\ WageTotals(WU) = WageAmounts(XU)
    <3> HIDE DEF WP, WU
    <3> QED
      BY <2>2, WagesOfRows
  <2>5. Y \subseteq WageItemIds /\ YP \subseteq Y /\ YU = Y \ YP
    OBVIOUS
  <2>6. view[t].total = WageAmounts(Y) /\ view[t].paid = WageAmounts(YP)
    BY <1>2
  <2> HIDE DEF Y, YP, YU, XP, XU, WP, WU
  <2>7. /\ WageAmounts(Y) = WageAmounts(YP) + WageAmounts(YU)
        /\ WageAmounts(YP) \in Int /\ WageAmounts(YU) \in Int
    BY <2>5, WageHalves
  <2>8. WageAmounts(YU) = WageAmounts(Y) - WageAmounts(YP)
    BY <2>7
  <2> QED
    BY <2>1, <2>3, <2>4, <2>6, <2>8
<1> HIDE DEF X, C, P, T, A, key, part, paidPart, total, paid, view, all
<1>11. WagesBy(X, C, key, part, total)
  BY <1>2, <1>5, <1>6 DEF WagesBy
<1>12. WagesBy(P, C, key, paidPart, paid)
  BY <1>2, <1>4, <1>5, <1>6 DEF WagesBy
<1>13. WageAmounts(X) = Sum(C, total)
  BY <1>7, <1>11, WageGroups DEF X
<1>14. WageAmounts(P) = Sum(C, paid)
  BY <1>4, <1>7, <1>12, WageGroups DEF X
<1>15. WageAmounts(X) = WageAmounts(T) + WageAmounts(A)
  BY <1>4, WageHalves DEF X
<1>16. all.total["teacher"] + all.total["assistant"] = SumOf(total)
  BY <1>3, <1>8, <1>13, <1>15
<1>17. all.paid = TotalPaid(view) /\ all.paid = PaidSalaries
  BY <1>3, <1>8, <1>9, <1>14
<1>18. \A t \in DOMAIN view :
         SalaryHistory(t) = [paid |-> view[t].paid, pending |-> view[t].total - view[t].paid]
  BY <1>2, <1>10
<1> QED
  BY <1>16, <1>17, <1>18 DEF all, view, total

\* The same salaries on every page
LEMMA SalariesAgree ==
  ASSUME ReportTyped
  PROVE  SalaryViewsAgree
BY SalaryMonths, SalaryTeachers DEF SalaryViewsAgree

\* All of it follows from the tables.
LEMMA ReportsFollow ==
  ASSUME ReportInv
  PROVE  MoneyViewsAgree
<1>1. ReportTyped
  BY DEF ReportInv
<1> QED
  BY <1>1, RevenueAgrees, SheetsTold, TuitionTold, SalariesAgree DEF MoneyViewsAgree

\* The total of a list of items, and the items of some classes
Totals(q) == [k \in DOMAIN q |-> q[k].total]
ClassAt(q, D) == {k \in DOMAIN q : q[k].class \in D}

\* A finite set is listed without repetition.
LEMMA ListedOnce ==
  ASSUME NEW S, IsFiniteSet(S)
  PROVE  LET q == SetToSeq(S) n == Cardinality(S)
         IN /\ n \in Nat /\ q \in [1..n -> S]
            /\ \A x \in S : \E j \in 1..n : q[j] = x
            /\ \A i, j \in 1..n : q[i] = q[j] => i = j
<1> DEFINE n == Cardinality(S)
           q == SetToSeq(S)
<1>1. n \in Nat /\ ExistsBijection(1..n, S)
  BY FS_CardinalityType
<1>2. \E f \in [1..n -> S] : IsInjective(f)
  BY <1>1, Zenon DEF ExistsBijection, Bijection, Injection, IsInjective
<1>3. q \in [1..n -> S] /\ IsInjective(q)
  BY <1>2 DEF SetToSeq
<1>4. q \in Injection(1..n, S)
  BY <1>3, Zenon DEF Injection
<1>5. Cardinality(1..n) = n
  <2> HIDE DEF n
  <2>1. 1 \in Int /\ n \in Int
    BY <1>1
  <2>2. Cardinality(1..n) = IF 1 > n THEN 0 ELSE n - 1 + 1
    BY <2>1, FS_Interval
  <2> QED
    BY <1>1, <2>2
<1> HIDE DEF q
<1>6. q \in Surjection(1..n, S)
  BY <1>4, <1>5, FS_Injection
<1>7. \A x \in S : \E j \in 1..n : q[j] = x
  BY <1>6, Zenon DEF Surjection
<1>8. \A i, j \in 1..n : q[i] = q[j] => i = j
  BY <1>3, Zenon DEF IsInjective
<1> QED
  BY <1>1, <1>3, <1>7, <1>8 DEF q

Prices == [i \in DOMAIN lesson |-> LessonPrice(i)]
KeyOf == [i \in DOMAIN lesson |-> <<lesson[i].class, LessonPrice(i)>>]

\* Prices are numbers.
LEMMA PriceFacts ==
  ASSUME ReportTyped, NEW i \in DOMAIN lesson
  PROVE  Prices[i] \in Int /\ LessonPrice(i) \in Int /\ lesson[i].class \in Group
<1>1. lesson[i].class \in Group
  BY LessonFacts
<1>2. fee[lesson[i].class] \in Int
  BY <1>1 DEF ReportTyped
<1>3. LessonPrice(i) \in Int
  BY <1>2 DEF LessonPrice
<1> QED
  BY <1>1, <1>3 DEF Prices

\* The items of lessons: one per class and rate, with its lessons
LEMMA ItemsFor ==
  ASSUME ReportTyped, NEW L, L \subseteq DOMAIN lesson
  PROVE  /\ IsFiniteSet(L) /\ IsFiniteSet(Items(L))
         /\ \A k \in Items(L) :
              /\ k \in ItemRow
              /\ k.total = Sum({i \in L : KeyOf[i] = <<k.class, k.rate>>}, Prices)
         /\ \A k, h \in Items(L) : <<k.class, k.rate>> = <<h.class, h.rate>> => k = h
         /\ \A i \in L : \E k \in Items(L) : <<k.class, k.rate>> = KeyOf[i]
<1> DEFINE S == Items(L)
           row == [i \in L |->
                     [class |-> lesson[i].class, rate |-> LessonPrice(i),
                      total |-> LessonPrice(i) * Cardinality({j \in L : KeyOf[j] = KeyOf[i]})]]
<1>1. IsFiniteSet(L)
  BY LessonFacts, FS_Subset
<1>2. S = {row[i] : i \in L}
  <2>1. \A j \in L : KeyOf[j] = <<lesson[j].class, LessonPrice(j)>>
    BY DEF KeyOf
  <2>2. \A i \in L :
          row[i] = [class |-> KeyOf[i][1], rate |-> KeyOf[i][2],
                    total |-> KeyOf[i][2] *
                      Cardinality({j \in L : <<lesson[j].class, LessonPrice(j)>> = KeyOf[i]})]
    <3> TAKE i \in L
    <3>1. KeyOf[i][1] = lesson[i].class /\ KeyOf[i][2] = LessonPrice(i)
      BY <2>1
    <3>2. {j \in L : <<lesson[j].class, LessonPrice(j)>> = KeyOf[i]} = {j \in L : KeyOf[j] = KeyOf[i]}
      BY <2>1
    <3> QED
      BY <3>1, <3>2
  <2> DEFINE make == [k \in {KeyOf[i] : i \in L} |->
                        [class |-> k[1], rate |-> k[2],
                         total |-> k[2] * Cardinality({j \in L : <<lesson[j].class, LessonPrice(j)>> = k})]]
             K == {<<lesson[i].class, LessonPrice(i)>> : i \in L}
  <2>3. K = {KeyOf[i] : i \in L}
    BY <2>1
  <2>4. S = {make[k] : k \in K}
    BY <2>3 DEF Items
  <2>5. \A i \in L : row[i] = make[KeyOf[i]]
    BY <2>2
  <2> HIDE DEF S, row, make, K
  <2> QED
    BY <2>3, <2>4, <2>5
<1>3. IsFiniteSet(S)
  <2>1. \A y \in S : \E i \in L : row[i] = y
    BY <1>2
  <2> HIDE DEF S, row
  <2> QED
    BY <1>1, <2>1, ImageFinite
<1>4. \A i \in L : /\ row[i].class = lesson[i].class /\ row[i].rate = LessonPrice(i)
                   /\ <<row[i].class, row[i].rate>> = KeyOf[i]
  BY DEF KeyOf
<1>5. \A i \in L : /\ row[i] \in ItemRow
                   /\ row[i].total = Sum({j \in L : KeyOf[j] = KeyOf[i]}, Prices)
  <2> TAKE i \in L
  <2> DEFINE T == {j \in L : KeyOf[j] = KeyOf[i]}
             r == LessonPrice(i)
             n == Cardinality(T)
  <2>1. r \in Int /\ lesson[i].class \in Group
    BY PriceFacts
  <2>2. IsFiniteSet(T)
    BY <1>1, FS_Subset
  <2>3. \A j \in T : Prices[j] = r
    <3> TAKE j \in T
    <3>1. <<lesson[j].class, LessonPrice(j)>> = <<lesson[i].class, LessonPrice(i)>>
      BY DEF KeyOf
    <3> QED
      BY <3>1 DEF Prices
  <2>4. row[i] = [class |-> lesson[i].class, rate |-> r, total |-> r * n]
    OBVIOUS
  <2> HIDE DEF T, r, n
  <2>5. n \in Int
    BY <2>2, FS_CardinalityType DEF n
  <2>6. r * n \in Int
    BY <2>1, <2>5
  <2>7. Sum(T, Prices) = r * n
    BY <2>1, <2>2, <2>3, SumConstant DEF n
  <2>8. row[i] \in ItemRow /\ row[i].total = r * n
    <3> DEFINE t == r * n
    <3> HIDE DEF t, row
    <3>1. t \in Int /\ row[i] = [class |-> lesson[i].class, rate |-> r, total |-> t]
      BY <2>4, <2>6 DEF t
    <3>2. row[i] \in ItemRow /\ row[i].total = t
      BY <2>1, <3>1 DEF ItemRow
    <3> QED
      BY <3>2 DEF t
  <2> QED
    BY <2>7, <2>8 DEF T
<1>6. \A k \in S : \E i \in L : k = row[i] /\ <<k.class, k.rate>> = KeyOf[i]
  BY <1>2, <1>4
<1>7. \A i \in L : row[i] \in S
  BY <1>2
<1>8. \A i, j \in L : KeyOf[i] = KeyOf[j] => row[i] = row[j]
  <2> TAKE i \in L, j \in L
  <2> HAVE KeyOf[i] = KeyOf[j]
  <2>1. <<lesson[i].class, LessonPrice(i)>> = <<lesson[j].class, LessonPrice(j)>>
    BY DEF KeyOf
  <2>2. lesson[i].class = lesson[j].class /\ LessonPrice(i) = LessonPrice(j)
    BY <2>1
  <2> QED
    BY <2>2
<1> HIDE DEF S, row
<1>9. \A k \in S : /\ k \in ItemRow
                   /\ k.total = Sum({i \in L : KeyOf[i] = <<k.class, k.rate>>}, Prices)
  <2> TAKE k \in S
  <2>1. PICK i \in L : k = row[i] /\ <<k.class, k.rate>> = KeyOf[i]
    BY <1>6
  <2>2. k \in ItemRow /\ k.total = Sum({j \in L : KeyOf[j] = KeyOf[i]}, Prices)
    BY <1>5, <2>1
  <2> QED
    BY <2>1, <2>2
<1>10. \A k, h \in S : <<k.class, k.rate>> = <<h.class, h.rate>> => k = h
  <2> TAKE k \in S, h \in S
  <2> HAVE <<k.class, k.rate>> = <<h.class, h.rate>>
  <2>1. PICK i \in L : k = row[i] /\ <<k.class, k.rate>> = KeyOf[i]
    BY <1>6
  <2>2. PICK j \in L : h = row[j] /\ <<h.class, h.rate>> = KeyOf[j]
    BY <1>6
  <2>3. KeyOf[i] = KeyOf[j]
    BY <2>1, <2>2
  <2> QED
    BY <1>8, <2>1, <2>2, <2>3
<1>11. \A i \in L : \E k \in S : <<k.class, k.rate>> = KeyOf[i]
  BY <1>4, <1>7
<1> QED
  BY <1>1, <1>3, <1>9, <1>10, <1>11 DEF S

\* The items of a bill as a list: of any classes of lessons they ask for these lessons.
LEMMA ItemsListed ==
  ASSUME ReportTyped, NEW L, L \subseteq DOMAIN lesson, NEW D
  PROVE  LET q == SetToSeq(Items(L))
         IN /\ Sum(ClassAt(q, D), Totals(q)) =
                 Sum({i \in L : lesson[i].class \in D}, Prices)
            /\ Sum(ClassAt(q, D), Totals(q)) =
                 Sum({k \in Items(L) : k.class \in D}, [k \in Items(L) |-> k.total])
<1> USE DEF ClassAt
<1> DEFINE S == Items(L)
           q == SetToSeq(S)
           n == Cardinality(S)
           M == {i \in L : lesson[i].class \in D}
           U == {k \in S : k.class \in D}
           J == ClassAt(q, D)
           key == [i \in DOMAIN lesson |-> CHOOSE k \in S : <<k.class, k.rate>> = KeyOf[i]]
           part == [k \in U |-> {i \in L : KeyOf[i] = <<k.class, k.rate>>}]
           total == [k \in S |-> k.total]
<1>1. /\ IsFiniteSet(L) /\ IsFiniteSet(S)
      /\ \A k \in S : k \in ItemRow /\ k.total = Sum({i \in L : KeyOf[i] = <<k.class, k.rate>>}, Prices)
      /\ \A k, h \in S : <<k.class, k.rate>> = <<h.class, h.rate>> => k = h
      /\ \A i \in L : \E k \in S : <<k.class, k.rate>> = KeyOf[i]
  <2> HIDE DEF S
  <2> QED
    BY ItemsFor DEF S
<1>2. /\ q \in [1..n -> S] /\ n \in Nat
      /\ (\A x \in S : \E j \in 1..n : q[j] = x) /\ \A i, j \in 1..n : q[i] = q[j] => i = j
  <2> HIDE DEF S
  <2> QED
    BY <1>1, ListedOnce
<1>3. \A k \in S : total[k] = k.total /\ total[k] \in Int
  <2> TAKE k \in S
  <2>1. k \in ItemRow
    BY <1>1
  <2>2. k.total \in Int
    BY <2>1 DEF ItemRow
  <2> QED
    BY <2>2
<1>4. M \subseteq L /\ U \subseteq S /\ \A i \in M : Prices[i] \in Int
  BY PriceFacts
<1>5. \A k \in U : total[k] = Sum(part[k], Prices)
  <2> TAKE k \in U
  <2>1. k \in S /\ part[k] = {i \in L : KeyOf[i] = <<k.class, k.rate>>}
    OBVIOUS
  <2> HIDE DEF S, part, total, U
  <2> QED
    BY <1>1, <1>3, <2>1
<1>6. \A i \in L : key[i] \in S /\ <<key[i].class, key[i].rate>> = KeyOf[i]
  <2> TAKE i \in L
  <2>1. \E k \in S : <<k.class, k.rate>> = KeyOf[i]
    BY <1>1
  <2>2. key[i] = CHOOSE k \in S : <<k.class, k.rate>> = KeyOf[i]
    OBVIOUS
  <2> HIDE DEF S, key
  <2> QED
    BY <2>1, <2>2
<1>7. \A i \in L : KeyOf[i] = <<lesson[i].class, LessonPrice(i)>>
  BY DEF KeyOf
<1>8. \A i \in L : key[i].class = lesson[i].class
  <2> TAKE i \in L
  <2>1. <<key[i].class, key[i].rate>> = <<lesson[i].class, LessonPrice(i)>>
    BY <1>6, <1>7
  <2> HIDE DEF key
  <2> QED
    BY <2>1
<1>9. \A i \in M : key[i] \in U
  <2> TAKE i \in M
  <2>1. i \in L /\ lesson[i].class \in D
    OBVIOUS
  <2>2. key[i] \in S /\ key[i].class \in D
    BY <1>6, <1>8, <2>1
  <2> HIDE DEF S, key
  <2> QED
    BY <2>2
<1>10. \A k \in U : \A x : x \in part[k] <=> x \in M /\ key[x] = k
  <2> TAKE k \in U
  <2> TAKE x
  <2>1. k \in S /\ k.class \in D
    OBVIOUS
  <2>2. x \in part[k] <=> x \in L /\ KeyOf[x] = <<k.class, k.rate>>
    OBVIOUS
  <2>3. x \in M <=> x \in L /\ lesson[x].class \in D
    OBVIOUS
  <2> HIDE DEF S, U, M, part, key
  <2>4. x \in L => (KeyOf[x] = <<k.class, k.rate>> <=> key[x] = k)
    BY <1>1, <1>6, <2>1
  <2>5. x \in L /\ key[x] = k => lesson[x].class \in D
    BY <1>8, <2>1
  <2> QED
    BY <2>2, <2>3, <2>4, <2>5
<1>11. DOMAIN q = 1..n /\ IsFiniteSet(1..n)
  <2>1. n \in Nat /\ DOMAIN q = 1..n
    BY <1>2
  <2> HIDE DEF n, q
  <2>2. 1 \in Int /\ n \in Int
    BY <2>1
  <2> QED
    BY <2>1, <2>2, FS_Interval
<1> DEFINE name == [j \in J |-> q[j]]
           g == Totals(q)
<1>12. \A j \in J : name[j] \in U /\ g[j] = total[name[j]]
  <2> TAKE j \in J
  <2>1. j \in 1..n /\ q[j].class \in D
    BY <1>11
  <2>2. q[j] \in S
    BY <1>2, <2>1
  <2>3. name[j] = q[j] /\ g[j] = q[j].total
    BY DEF Totals
  <2> HIDE DEF S, q, name, g
  <2> QED
    BY <2>1, <2>2, <2>3
<1>13. \A k \in U : total[k] \in Int /\ \E j \in J : name[j] = k
  <2> TAKE k \in U
  <2>1. k \in S /\ k.class \in D
    OBVIOUS
  <2>2. PICK j \in 1..n : q[j] = k
    BY <1>2, <2>1
  <2>3. j \in J /\ name[j] = k
    BY <1>11, <2>1, <2>2
  <2> HIDE DEF S, J, name, total
  <2> QED
    BY <1>3, <2>1, <2>3
<1>14. \A i, j \in J : name[i] = name[j] => i = j
  <2> TAKE i \in J, j \in J
  <2>1. i \in 1..n /\ j \in 1..n /\ name[i] = q[i] /\ name[j] = q[j]
    BY <1>11
  <2> HIDE DEF q, name
  <2> QED
    BY <1>2, <2>1
<1>15. J \subseteq 1..n
  BY <1>11
<1> HIDE DEF S, q, n, M, U, J, key, part, total, name, g
<1>16. IsFiniteSet(M) /\ IsFiniteSet(U) /\ IsFiniteSet(J)
  BY <1>1, <1>4, <1>11, <1>15, FS_Subset
<1>17. Keyed(M, U, key, part, Prices, total)
  BY <1>4, <1>5, <1>9, <1>10 DEF Keyed
<1>18. Sum(M, Prices) = Sum(U, total)
  BY <1>16, <1>17, SumKeys
<1>19. Sum(J, g) = Sum(U, total)
  BY <1>12, <1>13, <1>14, <1>16, SumRenamed
<1>20. Sum(J, g) = Sum(M, Prices)
  BY <1>18, <1>19
<1> QED
  BY <1>19, <1>20 DEF J, g, M, U, total, q, S

\* A lesson on a bill
LEMMA LessonTaken ==
  ASSUME NEW x \in LessonRow, NEW n \in Nat, NEW p \in Int,
         NEW y, y = [x EXCEPT !.bill = n, !.amount = p]
  PROVE  /\ y \in LessonRow /\ y.bill = n /\ y.amount = p
         /\ y.class = x.class /\ y.present = x.present
BY DEF LessonRow

Added(q, extra) ==
  IF extra = 0 THEN <<>> ELSE <<[class |-> q[1].class, rate |-> extra, total |-> extra]>>

Adjusts(q, extra, items) ==
  /\ q \in Seq(ItemRow) /\ q # <<>> /\ extra \in Int
  /\ items = q \o Added(q, extra)

\* An adjustment adds to the total and to the class of the first item.
LEMMA ItemsAdjusted ==
  ASSUME NEW q, NEW extra, NEW items, Adjusts(q, extra, items), NEW D
  PROVE     /\ items \in Seq(ItemRow) /\ items # <<>> /\ items[1] = q[1]
            /\ Sum(ClassAt(items, D), Totals(items)) =
                 Sum(ClassAt(q, D), Totals(q))
                 + (IF q[1].class \in D THEN extra ELSE 0)
<1> DEFINE a == Added(q, extra)
           n == Len(q)
           J == ClassAt(q, D)
           K == ClassAt(items, D)
           g == Totals(q)
           h == Totals(items)
<1>0. q \in Seq(ItemRow) /\ q # <<>> /\ extra \in Int /\ items = q \o a
  BY DEF Adjusts
<1>1. n \in Nat /\ n # 0 /\ DOMAIN q = 1..n /\ 1 \in 1..n /\ IsFiniteSet(1..n)
  <2>1. n \in Nat /\ n # 0 /\ DOMAIN q = 1..n
    BY <1>0
  <2> HIDE DEF n
  <2>2. 1 \in Int /\ n \in Int /\ 1 \in 1..n
    BY <2>1
  <2> QED
    BY <2>1, <2>2, FS_Interval
<1>2. \A j \in 1..n : q[j] \in ItemRow
  BY <1>0, <1>1
<1>3. \A j \in 1..n : q[j].class \in Group /\ q[j].total \in Int /\ g[j] = q[j].total
  <2> TAKE j \in 1..n
  <2>1. q[j] \in ItemRow
    BY <1>2
  <2> QED
    BY <1>1, <2>1 DEF ItemRow, Totals
<1>4. J \subseteq 1..n /\ IsFiniteSet(J) /\ (\A j \in J : g[j] \in Int)
  <2>1. J \subseteq 1..n
    BY <1>1 DEF ClassAt
  <2> HIDE DEF J, n, g
  <2> QED
    BY <1>1, <1>3, <2>1, FS_Subset
<1>5. Sum(J, g) \in Int
  <2> HIDE DEF J, g
  <2> QED
    BY <1>4, SumInt
<1>6. CASE extra = 0
  <2>1. items = q
    BY <1>0, <1>6 DEF Added
  <2>2. Sum(K, h) = Sum(J, g)
    BY <2>1
  <2>3. Sum(J, g) = Sum(J, g) + (IF q[1].class \in D THEN extra ELSE 0)
    <3> DEFINE t == Sum(J, g)
    <3> HIDE DEF t
    <3>1. t \in Int
      BY <1>5 DEF t
    <3>2. t = t + (IF q[1].class \in D THEN extra ELSE 0)
      BY <1>0, <1>6, <3>1
    <3> QED
      BY <3>2 DEF t
  <2>4. Sum(K, h) = Sum(J, g) + (IF q[1].class \in D THEN extra ELSE 0)
    <3> HIDE DEF K, J, g, h
    <3> QED
      BY <2>2, <2>3
  <2>5. items \in Seq(ItemRow) /\ items # <<>> /\ items[1] = q[1]
    BY <1>0, <2>1
  <2> QED
    BY <2>4, <2>5
<1>7. CASE extra # 0
  <2> DEFINE r == [class |-> q[1].class, rate |-> extra, total |-> extra]
             last == n + 1
  <2>1. r \in ItemRow /\ r.class = q[1].class /\ r.total = extra
    BY <1>0, <1>1, <1>3 DEF ItemRow
  <2>2. items = Append(q, r)
    <3>1. a = <<r>> /\ items = q \o a
      BY <1>0, <1>7 DEF Added
    <3> HIDE DEF r, a
    <3> QED
      BY <1>0, <2>1, <3>1
  <2>3. /\ items \in Seq(ItemRow) /\ DOMAIN items = 1..last
        /\ (\A j \in 1..n : items[j] = q[j]) /\ items[last] = r
    <3> HIDE DEF r
    <3> QED
      BY <1>0, <2>1, <2>2
  <2>4. items # <<>> /\ items[1] = q[1]
    <3>1. 1 \in DOMAIN items
      BY <1>1, <2>3
    <3> QED
      BY <1>1, <2>3, <3>1
  <2> DEFINE T == IF q[1].class \in D THEN {last} ELSE {}
             both == J \union T
  <2>5. last \notin 1..n /\ \A j : j \in 1..last <=> j \in 1..n \/ j = last
    BY <1>1
  <2>6. K = both /\ J \cap T = {}
    <3>1. \A j : j \in K <=> j \in 1..last /\ items[j].class \in D
      BY <2>3 DEF ClassAt
    <3>2. \A j : j \in J <=> j \in 1..n /\ q[j].class \in D
      BY <1>1 DEF ClassAt
    <3>3. \A j : j \in T <=> j = last /\ q[1].class \in D
      OBVIOUS
    <3>4. (\A j \in 1..n : items[j].class = q[j].class) /\ items[last].class = q[1].class
      BY <2>1, <2>3
    <3> HIDE DEF K, J, T, r, last, n
    <3> QED
      BY <2>5, <3>1, <3>2, <3>3, <3>4
  <2>7. \A j \in 1..last : h[j] = items[j].total
    BY <2>3 DEF Totals
  <2>8. (\A j \in J : h[j] = g[j]) /\ h[last] = extra
    <3>1. \A j \in J : j \in 1..n /\ j \in 1..last
      BY <1>4, <2>5
    <3>2. last \in 1..last
      BY <2>5
    <3> HIDE DEF J, r, last, n, g, h
    <3> QED
      BY <1>3, <2>1, <2>3, <2>7, <3>1, <3>2
  <2> HIDE DEF J, K, g, h, r, last, n
  <2>9. IsFiniteSet(T) /\ \A j \in T : h[j] \in Int
    <3>1. T = {last} \/ T = {}
      OBVIOUS
    <3>2. IsFiniteSet({last}) /\ IsFiniteSet({})
      BY FS_Singleton, FS_EmptySet
    <3> QED
      BY <1>0, <2>8, <3>1, <3>2
  <2>10. Sum(T, h) = IF q[1].class \in D THEN extra ELSE 0
    <3>1. CASE q[1].class \in D
      <4>1. h[last] \in Int
        BY <1>0, <2>8
      <4>2. Sum({last}, h) = h[last]
        BY <4>1, SumSingle
      <4> QED
        BY <2>8, <3>1, <4>2
    <3>2. CASE q[1].class \notin D
      <4>1. IsFiniteSet({}) /\ \A j \in {} : h[j] = 0
        BY FS_EmptySet
      <4>2. Sum({}, h) = 0
        BY <4>1, SumZeros
      <4> QED
        BY <3>2, <4>2
    <3> QED
      BY <3>1, <3>2
  <2> HIDE DEF T
  <2>11. \A j \in J \union T : h[j] \in Int
    BY <1>4, <2>8, <2>9
  <2>12. Sum(J \union T, h) = Sum(J, h) + Sum(T, h)
    <3>1. IsFiniteSet(J) /\ IsFiniteSet(T) /\ J \cap T = {}
      BY <1>4, <2>6, <2>9
    <3> HIDE DEF both
    <3> QED
      BY <2>11, <3>1, SumUnion
  <2>13. Sum(J, h) = Sum(J, g)
    BY <1>4, <2>8, SumSame
  <2>14. Sum(K, h) = Sum(J, g) + (IF q[1].class \in D THEN extra ELSE 0)
    BY <2>6, <2>10, <2>12, <2>13
  <2> QED
    BY <2>3, <2>4, <2>14 DEF K, J, g, h
<1> QED
  BY <1>6, <1>7

\* A bill stays right while its items and lessons do.
LEMMA BillKept ==
  ASSUME ReportTyped, NEW b \in DOMAIN bill, BillAdds(b),
         bill'[b].items = bill[b].items, bill'[b].total = bill[b].total,
         bill'[b].adjusted = bill[b].adjusted,
         DOMAIN lesson \subseteq DOMAIN lesson',
         \A i \in DOMAIN lesson' : lesson'[i].bill = b => i \in DOMAIN lesson /\ lesson[i].bill = b,
         \A i \in DOMAIN lesson : lesson[i].bill = b => lesson'[i] = lesson[i]
  PROVE  BillAdds(b)'
<1>1. ItemTotals(b)' = ItemTotals(b) /\ \A c \in Group : ItemsIn(b, c)' = ItemsIn(b, c)
  BY DEF ItemTotals, ItemsIn
<1>2. bill'[b].total = Sum(DOMAIN bill'[b].items, ItemTotals(b)')
  BY <1>1 DEF BillAdds
<1>3. ASSUME NEW c \in Group
      PROVE  Sum(LessonsOf(b, c)', LessonCosts') = Sum(LessonsOf(b, c), LessonCosts)
  <2> DEFINE M == LessonsOf(b, c)
             N == {i \in DOMAIN lesson' : lesson'[i].bill = b /\ lesson'[i].class = c}
             f == [i \in DOMAIN lesson |-> IF lesson[i].present THEN lesson[i].amount ELSE 0]
             g == [i \in DOMAIN lesson' |-> IF lesson'[i].present THEN lesson'[i].amount ELSE 0]
  <2>1. M = {i \in DOMAIN lesson : lesson[i].bill = b /\ lesson[i].class = c}
    BY DEF LessonsOf
  <2>2. N = M
    BY <2>1
  <2>3. IsFiniteSet(M)
    BY <2>1, LessonFacts, FS_Subset
  <2>4. \A i \in M : g[i] = f[i]
    BY <2>1
  <2>5. LessonsOf(b, c)' = N /\ LessonCosts' = g /\ LessonCosts = f
    BY DEF LessonsOf, LessonCosts
  <2> HIDE DEF M, N, f, g
  <2>6. Sum(M, g) = Sum(M, f)
    BY <2>3, <2>4, SumSame
  <2> QED
    BY <2>2, <2>5, <2>6 DEF M
<1>4. \A c \in Group :
        Sum(ItemsIn(b, c)', ItemTotals(b)') =
          Sum(LessonsOf(b, c)', LessonCosts')
          + (IF bill'[b].items[1].class = c THEN bill'[b].adjusted ELSE 0)
  BY <1>1, <1>3 DEF BillAdds
<1> QED
  BY <1>2, <1>4 DEF BillAdds

\* The bill of a student: its items ask for the lessons it takes in.
LEMMA BillsRight ==
  ASSUME ReportInv, NEW s \in Learner, NEW m \in Month, NEW extra \in Extra, BillStudent(s, m, extra)
  PROVE  ReportInv'
<1> DEFINE L == Unbilled(s, m)
           S == Items(L)
           q == SetToSeq(S)
           total == Sum(S, [k \in S |-> k.total])
           a == IF extra = 0 THEN <<>>
                ELSE <<[class |-> q[1].class, rate |-> extra, total |-> extra]>>
           items == q \o a
           earlier == {b \in DOMAIN bill : bill[b].student = s /\ bill[b].month = m}
           row == [student |-> s, month |-> m, period |-> <<m, Cardinality(earlier)>>,
                   items |-> items, total |-> total + extra, adjusted |-> extra, paid |-> FALSE]
           taken == [i \in DOMAIN lesson |->
                       [lesson[i] EXCEPT !.bill = Len(bill) + 1, !.amount = LessonPrice(i)]]
<1>0. ReportTyped /\ \A b \in DOMAIN bill : BillAdds(b)
  BY DEF ReportInv
<1>23. PICK n \in Nat : n = Len(bill) + 1
  <2>1. Len(bill) \in Nat
    BY <1>0 DEF ReportTyped
  <2> QED
    BY <2>1
<1>1. /\ L # {} /\ total + extra >= 0 /\ bill' = Append(bill, row)
      /\ lesson' = [i \in DOMAIN lesson |-> IF i \in L THEN taken[i] ELSE lesson[i]]
      /\ UNCHANGED <<fee, wage>>
  <2>1. lesson' = [i \in DOMAIN lesson |->
                     IF i \in L THEN [lesson[i] EXCEPT !.bill = Len(bill) + 1, !.amount = LessonPrice(i)]
                     ELSE lesson[i]]
    BY Zenon DEF BillStudent
  <2>2. \A i \in DOMAIN lesson :
          taken[i] = [lesson[i] EXCEPT !.bill = Len(bill) + 1, !.amount = LessonPrice(i)]
    BY Zenon
  <2>3. lesson' = [i \in DOMAIN lesson |-> IF i \in L THEN taken[i] ELSE lesson[i]]
    <3> HIDE DEF taken, L
    <3> QED
      BY <2>1, <2>2, Zenon
  <2>4. /\ L # {} /\ total + extra >= 0 /\ bill' = Append(bill, row)
        /\ UNCHANGED <<fee, wage>>
    BY Zenon DEF BillStudent
  <2> QED
    BY <2>3, <2>4, Zenon
<1>24. \A i \in DOMAIN lesson :
         /\ taken[i] \in LessonRow /\ taken[i].bill = n /\ taken[i].amount = LessonPrice(i)
         /\ taken[i].class = lesson[i].class /\ taken[i].present = lesson[i].present
  <2> TAKE i \in DOMAIN lesson
  <2> DEFINE x == lesson[i]
             p == LessonPrice(i)
             y == taken[i]
  <2>1. x \in LessonRow /\ p \in Int
    BY <1>0, PriceFacts DEF ReportTyped
  <2>2. y = [x EXCEPT !.bill = n, !.amount = p]
    BY <1>23, Zenon
  <2> HIDE DEF x, p, y, taken
  <2>3. /\ y \in LessonRow /\ y.bill = n /\ y.amount = p
        /\ y.class = x.class /\ y.present = x.present
    BY <2>1, <2>2 DEF LessonRow
  <2> QED
    BY <2>3 DEF x, p, y
<1> HIDE DEF taken
<1>2. L \subseteq DOMAIN lesson /\ \A i \in L : lesson[i].bill = 0
  BY DEF Unbilled
<1>3. /\ IsFiniteSet(L) /\ IsFiniteSet(S) /\ (\A k \in S : k \in ItemRow)
      /\ \A i \in L : \E k \in S : <<k.class, k.rate>> = KeyOf[i]
  <2> HIDE DEF L, S
  <2> QED
    BY <1>0, <1>2, ItemsFor DEF S
<1>4. q \in Seq(ItemRow) /\ q # <<>>
  <2> DEFINE k == Cardinality(S)
  <2>1. /\ k \in Nat /\ q \in [1..k -> S]
        /\ \A x \in S : \E j \in 1..k : q[j] = x
    <3> HIDE DEF S
    <3> QED
      BY <1>3, ListedOnce
  <2>2. S # {}
    <3> HIDE DEF S, L
    <3> QED
      BY <1>1, <1>3
  <2> HIDE DEF S, q, k
  <2>3. q \in [1..k -> ItemRow] /\ 1..k # {}
    BY <1>3, <2>1, <2>2
  <2>4. q \in Seq(ItemRow) /\ Len(q) = k /\ k # 0
    BY <2>1, <2>3
  <2> QED
    BY <2>4
<1>5. extra \in Int
  BY ReportConstants
<1>6. \A D : /\ Sum(ClassAt(q, D), Totals(q)) =
                  Sum({i \in L : lesson[i].class \in D}, Prices)
             /\ Sum(ClassAt(q, D), Totals(q)) =
                  Sum({k \in S : k.class \in D}, [k \in S |-> k.total])
  <2> HIDE DEF L
  <2> QED
    BY <1>0, <1>2, ItemsListed
<1>7. /\ items \in Seq(ItemRow) /\ items # <<>> /\ items[1] = q[1]
      /\ \A D : Sum(ClassAt(items, D), Totals(items)) =
                  Sum(ClassAt(q, D), Totals(q))
                  + (IF q[1].class \in D THEN extra ELSE 0)
  <2>1. items = q \o Added(q, extra)
    BY DEF Added
  <2> HIDE DEF q, items
  <2>2. ASSUME NEW D
        PROVE  /\ items \in Seq(ItemRow) /\ items # <<>> /\ items[1] = q[1]
               /\ Sum(ClassAt(items, D), Totals(items)) =
                    Sum(ClassAt(q, D), Totals(q)) + (IF q[1].class \in D THEN extra ELSE 0)
    <3>1. Adjusts(q, extra, items)
      BY <1>4, <1>5, <2>1 DEF Adjusts
    <3> QED
      BY <3>1, ItemsAdjusted
  <2> QED
    BY <2>2, Zenon
<1>8. \A r \in ItemRow : r.class \in Group /\ r.total \in Int
  BY DEF ItemRow
<1>9. /\ \A j \in DOMAIN items : items[j].class \in Group
      /\ q[1].class \in Group
      /\ \A k \in S : k.class \in Group /\ k.total \in Int
  <2> HIDE DEF items, q, S
  <2>1. 1 \in DOMAIN q /\ \A j \in DOMAIN q : q[j] \in ItemRow
    BY <1>4
  <2>2. \A j \in DOMAIN items : items[j] \in ItemRow
    BY <1>7
  <2> QED
    BY <1>3, <1>8, <2>1, <2>2
<1>10. total \in Int
  <2> DEFINE f == [k \in S |-> k.total]
  <2>1. \A k \in S : f[k] \in Int
    BY <1>9
  <2> HIDE DEF S, f
  <2> QED
    BY <1>3, <2>1, SumInt DEF f
<1>11. Sum(DOMAIN items, Totals(items)) = total + extra
  <2> DEFINE J == ClassAt(items, Group)
             U == {k \in S : k.class \in Group}
             f == [k \in S |-> k.total]
             t == Sum(ClassAt(q, Group), Totals(q))
  <2>1. J = DOMAIN items /\ U = S
    <3> HIDE DEF items, S
    <3> QED
      BY <1>9 DEF ClassAt
  <2>2. Sum(J, Totals(items)) = t + (IF q[1].class \in Group THEN extra ELSE 0)
    <3> HIDE DEF items, q
    <3> QED
      BY <1>7
  <2>3. t = Sum(U, f)
    <3> HIDE DEF q, S, L
    <3> QED
      BY <1>6
  <2> HIDE DEF J, U, t, f, items, S, q
  <2>4. Sum(DOMAIN items, Totals(items)) = Sum(S, f) + extra
    BY <1>9, <2>1, <2>2, <2>3
  <2> QED
    BY <2>4 DEF f
<1>12. row \in BillRow /\ n \in Nat /\ n > 0
  <2>1. IsFiniteSet(earlier)
    BY <1>0, ItemFacts, FS_Subset
  <2> DEFINE e == Cardinality(earlier)
             t == total + extra
  <2>2. e \in Nat
    BY <2>1, FS_CardinalityType
  <2>3. t \in Nat
    <3> DEFINE u == total
    <3> HIDE DEF u
    <3>1. u \in Int /\ u + extra >= 0
      BY <1>1, <1>10 DEF u
    <3>2. u + extra \in Nat
      BY <1>5, <3>1
    <3> QED
      BY <3>2 DEF u
  <2>4. row = [student |-> s, month |-> m, period |-> <<m, e>>, items |-> items, total |-> t,
               adjusted |-> extra, paid |-> FALSE]
    OBVIOUS
  <2> HIDE DEF e, t, items, row
  <2>5. row \in BillRow
    BY <1>5, <1>7, <2>2, <2>3, <2>4 DEF BillRow
  <2>6. Len(bill) \in Nat
    BY <1>0 DEF ReportTyped
  <2>7. n > 0
    BY <1>23, <2>6
  <2> QED
    BY <2>5, <2>7
<1>13. /\ bill' \in Seq(BillRow) /\ Len(bill') = n /\ DOMAIN bill' = 1..n
       /\ DOMAIN bill = 1..(n - 1) /\ n = Len(bill) + 1 /\ bill'[n] = row
       /\ \A b \in DOMAIN bill : b \in 1..n /\ b # n /\ bill'[b] = bill[b]
  <2> HIDE DEF row
  <2>1. bill \in Seq(BillRow)
    BY <1>0 DEF ReportTyped
  <2>2. /\ bill' \in Seq(BillRow) /\ Len(bill') = Len(bill) + 1 /\ Len(bill) \in Nat
        /\ bill'[Len(bill) + 1] = row /\ \A b \in 1..Len(bill) : bill'[b] = bill[b]
    <3>1. bill' = Append(bill, row) /\ row \in BillRow
      BY <1>1, <1>12
    <3> QED
      BY <2>1, <3>1
  <2>3. DOMAIN bill' = 1..Len(bill') /\ DOMAIN bill = 1..Len(bill)
    BY <2>1, <2>2
  <2> DEFINE k == Len(bill)
  <2>4. k \in Nat /\ n = k + 1 /\ DOMAIN bill = 1..k
    BY <1>23, <2>2, <2>3
  <2> HIDE DEF k
  <2>5. DOMAIN bill = 1..(n - 1) /\ \A b \in 1..k : b \in 1..n /\ b # n
    BY <2>4
  <2> QED
    BY <1>23, <2>2, <2>3, <2>4, <2>5 DEF k
<1>14. \A i \in DOMAIN lesson : lesson'[i] = IF i \in L THEN taken[i] ELSE lesson[i]
  <2> HIDE DEF L
  <2> QED
    BY <1>1
<1>15. DOMAIN lesson' = DOMAIN lesson
  BY <1>1
<1>16. \A i \in L : /\ lesson'[i] \in LessonRow /\ lesson'[i].bill = n
                    /\ lesson'[i].amount = LessonPrice(i) /\ lesson'[i].class = lesson[i].class
                    /\ lesson'[i].present = lesson[i].present
  <2> HIDE DEF L
  <2> QED
    BY <1>2, <1>14, <1>24
<1>17. \A i \in DOMAIN lesson : /\ lesson'[i] \in LessonRow /\ lesson'[i].bill \in 0..n
                                /\ i \notin L => lesson'[i] = lesson[i] /\ lesson'[i].bill # n
                                /\ lesson[i].bill # 0 => i \notin L
  <2> TAKE i \in DOMAIN lesson
  <2>1. lesson[i] \in LessonRow /\ lesson[i].bill \in 0..Len(bill)
    BY <1>0 DEF ReportTyped
  <2>2. 0..Len(bill) \subseteq 0..n /\ n \notin 0..Len(bill) /\ n \in 0..n
    <3> DEFINE k == Len(bill)
    <3>1. k \in Nat /\ n = k + 1
      BY <1>0, <1>23 DEF ReportTyped
    <3> HIDE DEF k
    <3>2. 0..k \subseteq 0..n /\ n \notin 0..k /\ n \in 0..n
      BY <3>1
    <3> QED
      BY <3>2 DEF k
  <2>3. lesson[i].bill # 0 => i \notin L
    BY <1>2
  <2> HIDE DEF L
  <2>4. CASE i \in L
    BY <1>16, <2>2, <2>3, <2>4
  <2>5. CASE i \notin L
    <3>1. lesson'[i] = lesson[i]
      BY <1>14, <2>5
    <3> QED
      BY <2>1, <2>2, <2>3, <2>5, <3>1
  <2> QED
    BY <2>4, <2>5
<1>18. lesson' \in Seq(LessonRow)
  <2> DEFINE k == Len(lesson)
  <2>1. k \in Nat /\ DOMAIN lesson = 1..k
    BY <1>0 DEF ReportTyped
  <2> HIDE DEF k, L
  <2>2. lesson' \in [1..k -> LessonRow]
    <3>1. lesson' = [i \in 1..k |-> lesson'[i]]
      BY <1>1, <1>15, <2>1
    <3>2. \A i \in 1..k : lesson'[i] \in LessonRow
      BY <1>17, <2>1
    <3> QED
      BY <3>1, <3>2
  <2> QED
    BY <2>1, <2>2
<1>19. ReportTyped'
  <2>1. fee' \in [Group -> Int] /\ wage' \in Seq(WageRow)
    BY <1>0, <1>1 DEF ReportTyped
  <2>2. \A i \in DOMAIN lesson' : lesson'[i].bill \in 0..Len(bill')
    BY <1>13, <1>15, <1>17
  <2>3. \A b \in DOMAIN bill' : bill'[b].items # <<>>
    <3> TAKE b \in DOMAIN bill'
    <3>1. row.items # <<>>
      BY <1>7
    <3>2. \A x \in DOMAIN bill : bill[x].items # <<>>
      BY <1>0 DEF ReportTyped
    <3>3. b = n \/ b \in DOMAIN bill
      <4>1. n \in Nat
        BY <1>12
      <4> QED
        BY <1>13, <4>1
    <3> HIDE DEF row
    <3> QED
      BY <1>13, <3>1, <3>2, <3>3
  <2> QED
    BY <1>13, <1>18, <2>1, <2>2, <2>3 DEF ReportTyped
<1>20. ASSUME NEW b \in DOMAIN bill
       PROVE  BillAdds(b)'
  <2>1. bill'[b] = bill[b] /\ b # 0 /\ b # n
    <3>1. b \in 1..(n - 1) /\ n \in Nat
      BY <1>12, <1>13
    <3> QED
      BY <1>13, <3>1
  <2>2. \A i \in DOMAIN lesson' : lesson'[i].bill = b => i \in DOMAIN lesson /\ lesson[i].bill = b
    <3> TAKE i \in DOMAIN lesson'
    <3> HIDE DEF L
    <3> QED
      BY <1>15, <1>16, <1>17, <2>1
  <2>3. \A i \in DOMAIN lesson : lesson[i].bill = b => lesson'[i] = lesson[i]
    BY <1>17, <2>1
  <2>4. BillAdds(b) /\ DOMAIN lesson \subseteq DOMAIN lesson'
    BY <1>0, <1>15
  <2> QED
    BY <1>0, <2>1, <2>2, <2>3, <2>4, BillKept
<1>21. BillAdds(n)'
  <2>1. bill'[n].items = items /\ bill'[n].total = total + extra /\ bill'[n].adjusted = extra
    BY <1>13
  <2> DEFINE totals == Totals(items)
             costs == [i \in DOMAIN lesson' |-> IF lesson'[i].present THEN lesson'[i].amount ELSE 0]
  <2>2. [k \in DOMAIN bill'[n].items |-> bill'[n].items[k].total] = totals
    <3> HIDE DEF items
    <3> QED
      BY <2>1 DEF Totals
  <2>3. bill'[n].total = Sum(DOMAIN bill'[n].items, totals)
    <3> HIDE DEF items, total, totals
    <3> QED
      BY <1>11, <2>1 DEF totals
  <2>4. ASSUME NEW c \in Group
        PROVE  Sum({k \in DOMAIN bill'[n].items : bill'[n].items[k].class = c}, totals) =
                 Sum({i \in DOMAIN lesson' : lesson'[i].bill = n /\ lesson'[i].class = c}, costs)
                 + (IF bill'[n].items[1].class = c THEN bill'[n].adjusted ELSE 0)
    <3> DEFINE D == {c}
               M == {i \in DOMAIN lesson' : lesson'[i].bill = n /\ lesson'[i].class = c}
               N == {i \in L : lesson[i].class \in D}
               J == ClassAt(items, D)
               u == Sum(ClassAt(q, D), Totals(q))
    <3>1. {k \in DOMAIN bill'[n].items : bill'[n].items[k].class = c} = J
      <4> HIDE DEF items
      <4> QED
        BY <2>1 DEF ClassAt
    <3>2. Sum(J, totals) = u + (IF q[1].class \in D THEN extra ELSE 0)
      <4> HIDE DEF items, q, D
      <4> QED
        BY <1>7
    <3>3. u = Sum(N, Prices)
      <4> HIDE DEF q, L, D
      <4> QED
        BY <1>6
    <3>4. M = N
      <4>1. \A i \in DOMAIN lesson : (lesson'[i].bill = n /\ lesson'[i].class = c) <=>
                                       (i \in L /\ lesson[i].class = c)
        <5> HIDE DEF L
        <5> QED
          BY <1>16, <1>17
      <4> HIDE DEF L
      <4> QED
        BY <1>2, <1>15, <4>1
    <3>5. IsFiniteSet(N) /\ \A i \in N : costs[i] = Prices[i]
      <4>1. IsFiniteSet(N)
        BY <1>3, FS_Subset
      <4>2. \A i \in L : costs[i] = Prices[i]
        <5> TAKE i \in L
        <5>1. i \in DOMAIN lesson /\ i \in DOMAIN lesson'
          BY <1>2, <1>15
        <5>2. costs[i] = IF lesson[i].present THEN LessonPrice(i) ELSE 0
          <6> HIDE DEF L
          <6> QED
            BY <1>16, <5>1
        <5>3. Prices[i] = LessonPrice(i)
          BY <5>1 DEF Prices
        <5> QED
          BY <5>2, <5>3 DEF LessonPrice
      <4> QED
        BY <4>1, <4>2
    <3>6. bill'[n].items[1].class = q[1].class /\ bill'[n].adjusted = extra
          /\ (q[1].class \in D <=> q[1].class = c)
      <4> HIDE DEF items, q
      <4> QED
        BY <1>7, <2>1
    <3> HIDE DEF D, M, N, J, u, items, totals, costs, L, S, q
    <3>7. Sum(N, costs) = Sum(N, Prices)
      BY <3>5, SumSame
    <3> QED
      BY <3>1, <3>2, <3>3, <3>4, <3>6, <3>7 DEF M
  <2> HIDE DEF totals, costs
  <2>5. LessonCosts' = costs /\ ItemTotals(n)' = totals
    BY <2>2 DEF LessonCosts, ItemTotals, costs
  <2>6. \A c \in Group :
          /\ LessonsOf(n, c)' = {i \in DOMAIN lesson' : lesson'[i].bill = n /\ lesson'[i].class = c}
          /\ ItemsIn(n, c)' = {k \in DOMAIN bill'[n].items : bill'[n].items[k].class = c}
    BY DEF LessonsOf, ItemsIn
  <2> QED
    BY <2>3, <2>4, <2>5, <2>6 DEF BillAdds
<1>22. \A b \in DOMAIN bill' : b = n \/ b \in DOMAIN bill
  <2>1. n \in Nat
    BY <1>12
  <2> QED
    BY <1>13, <2>1
<1> QED
  BY <1>19, <1>20, <1>21, <1>22 DEF ReportInv

\* No tables yet
LEMMA ReportStarts ==
  ReportInit => ReportInv
<1> SUFFICES ASSUME ReportInit PROVE ReportInv
  OBVIOUS
<1>1. fee \in [Group -> Int]
  <2>1. fee \in [Group -> UNION {Fee[c] : c \in Group}]
    BY DEF ReportInit
  <2>2. \A x \in UNION {Fee[c] : c \in Group} : x \in Int
    BY ReportConstants
  <2> QED
    BY <2>1, <2>2
<1>2. lesson = <<>> /\ bill = <<>> /\ wage \in Seq(WageRow)
  BY ReportConstants DEF ReportInit
<1>3. DOMAIN lesson = {} /\ DOMAIN bill = {} /\ lesson \in Seq(LessonRow) /\ bill \in Seq(BillRow)
  BY <1>2
<1> QED
  BY <1>1, <1>2, <1>3 DEF ReportInv, ReportTyped

\* Rosters, prices and payments leave the items and the lessons of bills.
LEMMA TablesSame ==
  ASSUME ReportInv, UNCHANGED <<lesson, bill, wage>>, fee' \in [Group -> Int]
  PROVE  ReportInv'
<1>0. ReportTyped /\ \A b \in DOMAIN bill : BillAdds(b)
  BY DEF ReportInv
<1>1. ReportTyped'
  BY <1>0 DEF ReportTyped
<1>2. \A b \in DOMAIN bill : BillAdds(b)'
  BY <1>0 DEF BillAdds, ItemTotals, ItemsIn, LessonsOf, LessonCosts
<1> QED
  BY <1>1, <1>2 DEF ReportInv

\* A lesson that is not billed yet is on no bill.
LEMMA LessonHeld ==
  ASSUME ReportInv, NEW s \in Learner, NEW c \in Group, NEW m \in Month, NEW present \in BOOLEAN,
         HoldLesson(s, c, m, present)
  PROVE  ReportInv'
<1> DEFINE row == [student |-> s, class |-> c, month |-> m, present |-> present,
                   bill |-> 0, amount |-> 0]
           k == Len(lesson)
<1>0. ReportTyped /\ \A b \in DOMAIN bill : BillAdds(b)
  BY DEF ReportInv
<1>1. lesson' = Append(lesson, row) /\ UNCHANGED <<fee, bill, wage>>
  BY DEF HoldLesson
<1>2. row \in LessonRow /\ row.bill = 0
  <2>1. 0 \in Nat /\ 0 \in Int
    OBVIOUS
  <2> QED
    BY <2>1 DEF LessonRow
<1>3. /\ lesson' \in Seq(LessonRow) /\ DOMAIN lesson' = 1..(k + 1) /\ DOMAIN lesson = 1..k
      /\ k \in Nat /\ lesson'[k + 1] = row /\ \A i \in 1..k : lesson'[i] = lesson[i]
  <2>1. lesson \in Seq(LessonRow)
    BY <1>0 DEF ReportTyped
  <2> HIDE DEF row
  <2> QED
    BY <1>1, <1>2, <2>1
<1>4. \A i \in DOMAIN lesson' : i = k + 1 \/ i \in DOMAIN lesson
  <2> HIDE DEF k
  <2> QED
    BY <1>3
<1>5. \A i \in DOMAIN lesson' : lesson'[i].bill \in 0..Len(bill')
  <2> TAKE i \in DOMAIN lesson'
  <2>1. \A j \in DOMAIN lesson : lesson[j].bill \in 0..Len(bill)
    BY <1>0 DEF ReportTyped
  <2>2. Len(bill) \in Nat /\ 0 \in 0..Len(bill) /\ Len(bill') = Len(bill)
    <3>1. Len(bill) \in Nat
      BY <1>0 DEF ReportTyped
    <3> QED
      BY <1>1, <3>1
  <2> HIDE DEF k, row
  <2> QED
    BY <1>2, <1>3, <1>4, <2>1, <2>2
<1>6. ReportTyped'
  BY <1>0, <1>1, <1>3, <1>5 DEF ReportTyped
<1>7. ASSUME NEW b \in DOMAIN bill
      PROVE  BillAdds(b)'
  <2>1. bill'[b] = bill[b] /\ b # 0
    <3>1. DOMAIN bill = 1..Len(bill) /\ Len(bill) \in Nat
      BY <1>0 DEF ReportTyped
    <3>2. b # 0
      BY <3>1
    <3> QED
      BY <1>1, <3>2
  <2> HIDE DEF k, row
  <2>2. \A i \in DOMAIN lesson' : lesson'[i].bill = b => i \in DOMAIN lesson /\ lesson[i].bill = b
    BY <1>2, <1>3, <1>4, <2>1
  <2>3. DOMAIN lesson \subseteq DOMAIN lesson' /\ \A i \in DOMAIN lesson : lesson'[i] = lesson[i]
    BY <1>3
  <2> QED
    BY <1>0, <2>1, <2>2, <2>3, BillKept
<1> QED
  BY <1>1, <1>6, <1>7 DEF ReportInv

\* Paying changes no amount.
LEMMA BillPaid ==
  ASSUME ReportInv, NEW p \in DOMAIN bill, PayBill(p)
  PROVE  ReportInv'
<1>0. ReportTyped /\ \A b \in DOMAIN bill : BillAdds(b)
  BY DEF ReportInv
<1> DEFINE row == [bill[p] EXCEPT !.paid = ~@]
<1>1. bill' = [bill EXCEPT ![p] = row] /\ UNCHANGED <<fee, lesson, wage>>
  BY DEF PayBill
<1>2. bill[p] \in BillRow /\ bill[p].items # <<>>
  BY <1>0 DEF ReportTyped
<1>3. /\ row \in BillRow /\ row.items = bill[p].items /\ row.total = bill[p].total
      /\ row.adjusted = bill[p].adjusted
  BY <1>2 DEF BillRow
<1> HIDE DEF row
<1>4. bill' \in Seq(BillRow) /\ Len(bill') = Len(bill) /\ DOMAIN bill' = DOMAIN bill
  <2>1. bill \in Seq(BillRow)
    BY <1>0 DEF ReportTyped
  <2> QED
    BY <1>1, <1>3, <2>1
<1>5. \A b \in DOMAIN bill : /\ bill'[b].items = bill[b].items /\ bill'[b].total = bill[b].total
                             /\ bill'[b].adjusted = bill[b].adjusted
  BY <1>1, <1>3
<1>6. ReportTyped'
  BY <1>0, <1>1, <1>4, <1>5 DEF ReportTyped
<1>7. ASSUME NEW b \in DOMAIN bill
      PROVE  BillAdds(b)'
  BY <1>0, <1>1, <1>5, BillKept
<1> QED
  BY <1>4, <1>6, <1>7 DEF ReportInv

\* Every step keeps the bills right.
LEMMA ReportSteps ==
  ReportInv /\ [ReportNext]_reportVars => ReportInv'
<1> SUFFICES ASSUME ReportInv, [ReportNext]_reportVars PROVE ReportInv'
  OBVIOUS
<1>0. fee \in [Group -> Int]
  BY DEF ReportInv, ReportTyped
<1>1. ASSUME NEW s \in Learner, NEW c \in Group, Join(s, c) \/ Leave(s, c)
      PROVE  ReportInv'
  BY <1>0, <1>1, TablesSame DEF Join, Leave
<1>2. ASSUME NEW s \in Learner, NEW c \in Group, NEW m \in Month, NEW present \in BOOLEAN,
             HoldLesson(s, c, m, present)
      PROVE  ReportInv'
  BY <1>2, LessonHeld
<1>3. ASSUME NEW c \in Group, NEW n \in Fee[c], ChangeFee(c, n)
      PROVE  ReportInv'
  <2>1. n \in Int
    BY ReportConstants
  <2>2. fee' \in [Group -> Int] /\ UNCHANGED <<lesson, bill, wage>>
    BY <1>0, <1>3, <2>1 DEF ChangeFee
  <2> QED
    BY <2>2, TablesSame
<1>4. ASSUME NEW s \in Learner, NEW m \in Month, NEW extra \in Extra, BillStudent(s, m, extra)
      PROVE  ReportInv'
  BY <1>4, BillsRight
<1>5. ASSUME NEW b \in DOMAIN bill, PayBill(b)
      PROVE  ReportInv'
  BY <1>5, BillPaid
<1>6. CASE UNCHANGED reportVars
  BY <1>0, <1>6, TablesSame DEF reportVars
<1> QED
  BY <1>1, <1>2, <1>3, <1>4, <1>5, <1>6 DEF ReportNext

\* Whoever joins, leaves or pays and whatever a lesson costs by now: reports that
\* group the same bills and wages otherwise agree in total, the items and the lessons of
\* every bill add up to what it asks, and attendance by class shows the tuition billed.
THEOREM MoneyViewsTold == ReportSpec => []MoneyViewsAgree
<1>1. ReportInit => ReportInv
  BY ReportStarts
<1>2. ReportInv /\ [ReportNext]_reportVars => ReportInv'
  BY ReportSteps
<1>3. ReportInv => MoneyViewsAgree
  BY ReportsFollow
<1> QED
  BY <1>1, <1>2, <1>3, PTL DEF ReportSpec

-----------------------------------------------------------------------------
(* Weekly reports                                                          *)

LEMMA ProductGrows ==
  ASSUME NEW n \in Nat, NEW a \in Int, NEW b \in Int, a <= b
  PROVE  n * a <= n * b /\ n * a \in Int /\ n * b \in Int
<1>1. b - a \in Nat
  OBVIOUS
<1>2. n * (b - a) >= 0
  BY <1>1
<1>3. n * b = n * a + n * (b - a)
  OBVIOUS
<1> QED
  BY <1>2, <1>3

\* A quotient lies between its bounds and grows with what is divided.
LEMMA Quotient ==
  ASSUME NEW d \in Nat \ {0}, NEW a \in Int
  PROVE  a \div d \in Int /\ d * (a \div d) <= a /\ a < d * (a \div d) + d
<1>1. a = d * (a \div d) + (a % d) /\ a % d \in 0..(d - 1) /\ a \div d \in Int
  OBVIOUS
<1> QED
  BY <1>1

LEMMA QuotientGrows ==
  ASSUME NEW d \in Nat \ {0}, NEW a \in Int, NEW b \in Int, a <= b
  PROVE  a \div d <= b \div d
<1> DEFINE p == a \div d
           q == b \div d
<1>1. p \in Int /\ q \in Int /\ d * p <= a /\ b < d * q + d
  BY Quotient
<1> HIDE DEF p, q
<1>2. ASSUME p > q
      PROVE  FALSE
  <2>1. d * (q + 1) <= d * p
    BY <1>1, <1>2, ProductGrows
  <2>2. d * (q + 1) = d * q + d /\ d * q \in Int /\ d * p \in Int
    BY <1>1
  <2> QED
    BY <1>1, <2>1, <2>2
<1>3. p <= q
  BY <1>1, <1>2
<1> QED
  BY <1>3 DEF p, q

LEMMA QuotientWithin ==
  ASSUME NEW d \in Nat \ {0}, NEW a \in Int, NEW k \in Nat, 0 <= a, a < d * k + d
  PROVE  a \div d \in 0..k
<1> DEFINE q == a \div d
<1>1. q \in Int /\ d * q <= a /\ a < d * q + d
  BY Quotient
<1> HIDE DEF q
<1>2. ASSUME q < 0
      PROVE  FALSE
  <2>1. d * (q + 1) <= d * 0
    BY <1>1, <1>2, ProductGrows
  <2>2. d * (q + 1) = d * q + d /\ d * q \in Int
    BY <1>1
  <2> QED
    BY <1>1, <2>1, <2>2
<1>3. ASSUME q > k
      PROVE  FALSE
  <2>1. d * (k + 1) <= d * q
    BY <1>1, <1>3, ProductGrows
  <2>2. d * (k + 1) = d * k + d /\ d * k \in Int /\ d * q \in Int
    BY <1>1
  <2> QED
    BY <1>1, <2>1, <2>2
<1>4. q \in 0..k
  BY <1>1, <1>2, <1>3
<1> QED
  BY <1>4 DEF q

\* A lesson as the report reads it
Lesson ==
  [counts : BOOLEAN, present : BOOLEAN, late : BOOLEAN, homework : HomeworkStatus,
   participation : ParticipationStatus, understanding : UnderstandingStatus,
   tags : SUBSET STRING, score : EvaluationScore]

WeekTyped ==
  /\ seen \in [Taught -> {Unset, "absent", "late", "present"}]
  /\ oldScore \in [Taught -> EvaluationScore]
  /\ evaluated \in [Taught -> Evaluation \union {Unset}]

InputsTyped == Inputs \in [Taught -> Lesson]

LEMMA LessonsRead == WeekTyped => InputsTyped
<1> SUFFICES ASSUME WeekTyped, NEW l \in Taught
             PROVE  Input(l) \in Lesson /\ [Input(l) EXCEPT !.counts = FALSE] \in Lesson
  BY DEF InputsTyped, Inputs
<1>1. evaluated[l] \in Evaluation \union {Unset} /\ oldScore[l] \in EvaluationScore
  BY DEF WeekTyped
<1>2. Input(l) \in Lesson
  <2>1. CASE evaluated[l] = Unset
    BY <1>1, <2>1 DEF Input, Lesson, HomeworkStatus, ParticipationStatus, UnderstandingStatus
  <2>2. CASE evaluated[l] # Unset
    BY <1>1, <2>2 DEF Input, Lesson, Evaluation
  <2> QED
    BY <2>1, <2>2
<1> QED
  BY <1>2 DEF Lesson

LEMMA WeekStarts == WeekInit => WeekTyped
BY DEF WeekInit, WeekTyped, EvaluationScore

\* What a request leaves out has a default or stays.
LEMMA UpsertTyped ==
  ASSUME NEW m \in Marks, NEW row \in Evaluation \union {Unset}
  PROVE  Upsert(row, m) \in Evaluation /\ m.score \in EvaluationScore
<1> DEFINE old == IF row # Unset THEN row
                  ELSE [homework |-> "completed", participation |-> "active",
                        understanding |-> "understood", tags |-> {}, score |-> Unset]
<1>1. old \in Evaluation
  BY DEF Evaluation, HomeworkStatus, ParticipationStatus, UnderstandingStatus, EvaluationScore
<1>2. m \in [homework : HomeworkStatus \union {Unset},
             participation : ParticipationStatus \union {Unset},
             understanding : UnderstandingStatus \union {Unset},
             tags : (SUBSET STRING) \union {Unset}, score : EvaluationScore]
  BY WeekConstants
<1>3. Upsert(row, m) =
        [homework |-> Given(m.homework, old.homework),
         participation |-> Given(m.participation, old.participation),
         understanding |-> Given(m.understanding, old.understanding),
         tags |-> Given(m.tags, old.tags), score |-> m.score]
  BY DEF Upsert
<1> HIDE DEF old
<1> QED
  BY <1>1, <1>2, <1>3 DEF Evaluation, Given

LEMMA WeekKeeps == WeekTyped /\ [WeekNext]_reportWeekVars => WeekTyped'
<1> SUFFICES ASSUME WeekTyped, [WeekNext]_reportWeekVars
             PROVE  WeekTyped'
  OBVIOUS
<1>1. CASE UNCHANGED reportWeekVars
  BY <1>1 DEF WeekTyped, reportWeekVars
<1>2. ASSUME NEW l \in Taught, HoldClass(l)
      PROVE  WeekTyped'
  BY <1>2 DEF HoldClass, WeekTyped
<1>3. ASSUME NEW l \in Taught, NEW state \in {"absent", "late", "present"}, Mark(l, state)
      PROVE  WeekTyped'
  BY <1>3 DEF Mark, WeekTyped
<1>4. ASSUME NEW l \in Taught, NEW score \in OldScore, MarkScore(l, score)
      PROVE  WeekTyped'
  BY <1>4, WeekConstants DEF MarkScore, WeekTyped
<1>5. ASSUME NEW l \in Taught, NEW m \in Marks, SaveEvaluation(l, m)
      PROVE  WeekTyped'
  <2>1. Upsert(evaluated[l], m) \in Evaluation /\ m.score \in EvaluationScore
    BY UpsertTyped DEF WeekTyped
  <2> QED
    BY <1>5, <2>1 DEF SaveEvaluation, WeekTyped
<1> QED
  BY <1>1, <1>2, <1>3, <1>4, <1>5 DEF WeekNext

-----------------------------------------------------------------------------
(* The index.                                                               *)

\* What a lesson counts, apart from the behavior
LessonPoints(i) ==
  AttendancePoints(i) + HomeworkPoints(i) + AttitudePoints(i) + CompetencyPoints(i)
  + AcademicPoints(i)

LEMMA ThreeTags == IsFiniteSet({"talkative", "phone", "distracted"})
<1>1. IsFiniteSet({"talkative"}) /\ IsFiniteSet({"phone"}) /\ IsFiniteSet({"distracted"})
  BY FS_Singleton
<1>2. {"talkative", "phone", "distracted"} = ({"talkative"} \union {"phone"}) \union {"distracted"}
  OBVIOUS
<1> QED
  BY <1>1, <1>2, FS_Union

LEMMA PointsTyped ==
  ASSUME NEW i \in Lesson
  PROVE  /\ LessonPoints(i) \in 0..750
         /\ Violations(i) \in Nat
         /\ SubjectPoints(i) \in Nat
<1>1. /\ AttendancePoints(i) \in 0..100 /\ HomeworkPoints(i) \in 0..100
      /\ AttitudePoints(i) \in 0..100 /\ CompetencyPoints(i) \in 0..150
  BY DEF AttendancePoints, HomeworkPoints, AttitudePoints, CompetencyPoints
<1>2. i.score \in 0..100 \/ i.score = Unset
  BY DEF Lesson, EvaluationScore
<1>3. AcademicPoints(i) \in 0..300 /\ SubjectPoints(i) \in Nat
  BY <1>2 DEF AcademicPoints, SubjectPoints
<1>4. IsFiniteSet(i.tags \cap {"talkative", "phone", "distracted"})
  BY ThreeTags, FS_Subset
<1>5. Violations(i) \in Nat
  BY <1>4, FS_CardinalityType DEF Violations
<1>6. LessonPoints(i) \in 0..750
  <2>1. PICK p \in 0..100, q \in 0..100, r \in 0..100, s \in 0..150, t \in 0..300 :
           /\ p = AttendancePoints(i) /\ q = HomeworkPoints(i) /\ r = AttitudePoints(i)
           /\ s = CompetencyPoints(i) /\ t = AcademicPoints(i)
    BY <1>1, <1>3
  <2>2. LessonPoints(i) = p + q + r + s + t
    BY <2>1, Zenon DEF LessonPoints
  <2>3. p + q + r + s + t \in 0..750
    OBVIOUS
  <2> QED
    BY <2>2, <2>3, Zenon
<1> QED
  BY <1>3, <1>5, <1>6

LEMMA PointsGrow ==
  ASSUME NEW b \in Lesson, NEW a \in Lesson, AtLeast(b, a)
  PROVE  /\ LessonPoints(a) <= LessonPoints(b)
         /\ Violations(b) <= Violations(a)
         /\ SubjectPoints(a) <= SubjectPoints(b)
         /\ a.present => b.present
         /\ a.homework = "completed" => b.homework = "completed"
         /\ a.understanding = "understood" => b.understanding = "understood"
         /\ a.participation = "active" => b.participation = "active"
<1>1. /\ AttendancePoints(a) <= AttendancePoints(b)
      /\ AttendancePoints(a) \in 0..100 /\ AttendancePoints(b) \in 0..100
      /\ a.present => b.present
  BY DEF AtLeast, AttendancePoints, Lesson
<1>2. /\ HomeworkPoints(a) <= HomeworkPoints(b)
      /\ HomeworkPoints(a) \in 0..100 /\ HomeworkPoints(b) \in 0..100
      /\ a.homework = "completed" => b.homework = "completed"
  BY DEF AtLeast, HomeworkPoints, Lesson, Worth, HomeworkStatus
<1>3. /\ AttitudePoints(a) <= AttitudePoints(b)
      /\ AttitudePoints(a) \in 0..100 /\ AttitudePoints(b) \in 0..100
      /\ a.participation = "active" => b.participation = "active"
  BY DEF AtLeast, AttitudePoints, Lesson, Worth, ParticipationStatus
<1>4. a.understanding = "understood" => b.understanding = "understood"
  BY DEF AtLeast, Lesson, Worth, UnderstandingStatus
<1>5. /\ CompetencyPoints(a) <= CompetencyPoints(b)
      /\ CompetencyPoints(a) \in 0..150 /\ CompetencyPoints(b) \in 0..150
  BY <1>4 DEF CompetencyPoints
<1>6. /\ AcademicPoints(a) <= AcademicPoints(b)
      /\ AcademicPoints(a) \in 0..300 /\ AcademicPoints(b) \in 0..300
      /\ SubjectPoints(a) <= SubjectPoints(b)
  <2>1. /\ (a.score = Unset) = (b.score = Unset)
        /\ a.score # Unset => a.score \in 0..100 /\ b.score \in 0..100 /\ a.score <= b.score
    BY DEF AtLeast, Lesson, EvaluationScore
  <2>2. CASE a.score = Unset
    BY <1>4, <2>1, <2>2 DEF AcademicPoints, SubjectPoints
  <2>3. CASE a.score # Unset
    <3>1. PICK s \in 0..100, t \in 0..100 : s = a.score /\ t = b.score /\ s <= t /\ b.score # Unset
      BY <2>1, <2>3
    <3>2. /\ AcademicPoints(a) = 3 * s /\ AcademicPoints(b) = 3 * t
          /\ SubjectPoints(a) = s /\ SubjectPoints(b) = t
      BY <2>3, <3>1, Zenon DEF AcademicPoints, SubjectPoints
    <3> QED
      BY <3>1, <3>2
  <2> QED
    BY <2>2, <2>3
<1>7. Violations(b) <= Violations(a)
  <2>2. IsFiniteSet(a.tags \cap {"talkative", "phone", "distracted"})
    BY ThreeTags, FS_Subset
  <2>3. b.tags \cap {"talkative", "phone", "distracted"}
          \subseteq a.tags \cap {"talkative", "phone", "distracted"}
    BY DEF AtLeast
  <2> QED
    BY <2>2, <2>3, FS_Subset DEF Violations
<1>8. LessonPoints(a) <= LessonPoints(b)
  <2>1. PICK p \in 0..100, q \in 0..100, r \in 0..100, s \in 0..150, t \in 0..300 :
           /\ p = AttendancePoints(a) /\ q = HomeworkPoints(a) /\ r = AttitudePoints(a)
           /\ s = CompetencyPoints(a) /\ t = AcademicPoints(a)
    BY <1>1, <1>2, <1>3, <1>5, <1>6
  <2>2. PICK u \in 0..100, v \in 0..100, w \in 0..100, x \in 0..150, y \in 0..300 :
           /\ u = AttendancePoints(b) /\ v = HomeworkPoints(b) /\ w = AttitudePoints(b)
           /\ x = CompetencyPoints(b) /\ y = AcademicPoints(b)
    BY <1>1, <1>2, <1>3, <1>5, <1>6
  <2>3. p <= u /\ q <= v /\ r <= w /\ s <= x /\ t <= y
    BY <1>1, <1>2, <1>3, <1>5, <1>6, <2>1, <2>2, Zenon
  <2>4. p + q + r + s + t <= u + v + w + x + y
    BY <2>3
  <2>5. LessonPoints(a) = p + q + r + s + t /\ LessonPoints(b) = u + v + w + x + y
    BY <2>1, <2>2, Zenon DEF LessonPoints
  <2> QED
    BY <2>4, <2>5, Zenon
<1> QED
  BY <1>1, <1>2, <1>3, <1>4, <1>6, <1>7, <1>8

\* What is added up: the points of the lessons, and up to five for the behavior
LessonSums(I, L) == Sum(L, [l \in L |-> LessonPoints(I[l])])
TagSums(I, L) == Sum(L, [l \in L |-> Violations(I[l])])
Calm(I, L) == IF TagSums(I, L) < 5 THEN 5 - TagSums(I, L) ELSE 0

LEMMA BaseSums ==
  ASSUME NEW I, NEW L
  PROVE  Base(I, L) = 10 * Cardinality(L) * Calm(I, L) + LessonSums(I, L)
BY DEF Base, BehaviorPoints, PointsOf, LessonSums, TagSums, Calm, LessonPoints

LEMMA SumsTyped ==
  ASSUME NEW I, NEW L, IsFiniteSet(L), \A l \in L : I[l] \in Lesson
  PROVE  /\ Cardinality(L) \in Nat /\ (L # {} => Cardinality(L) > 0)
         /\ TagSums(I, L) \in Nat /\ Calm(I, L) \in 0..5
         /\ LessonSums(I, L) \in Int
         /\ 0 <= LessonSums(I, L) /\ LessonSums(I, L) <= 750 * Cardinality(L)
         /\ PointsOf(I, L, SubjectPoints) \in Nat
<1> DEFINE points == [l \in L |-> LessonPoints(I[l])]
           most == [l \in L |-> 750]
           tags == [l \in L |-> Violations(I[l])]
           marks == [l \in L |-> SubjectPoints(I[l])]
<1>1. \A l \in L : points[l] \in Nat /\ points[l] <= 750 /\ tags[l] \in Nat /\ marks[l] \in Nat
  BY PointsTyped
<1>2. \A l \in L : most[l] = 750
  OBVIOUS
<1>3. LessonSums(I, L) = Sum(L, points) /\ TagSums(I, L) = Sum(L, tags)
      /\ PointsOf(I, L, SubjectPoints) = Sum(L, marks)
  BY DEF LessonSums, TagSums, PointsOf
<1> HIDE DEF points, most, tags, marks
<1>4. Sum(L, points) \in Nat /\ Sum(L, tags) \in Nat /\ Sum(L, marks) \in Nat
  BY <1>1, SumNat
<1>5. Sum(L, points) <= Sum(L, most)
  BY <1>1, <1>2, SumAtMost
<1>6. Sum(L, most) = 750 * Cardinality(L)
  BY <1>2, SumConstant
<1>7. Cardinality(L) \in Nat /\ (L # {} => Cardinality(L) > 0)
  BY FS_CardinalityType, FS_EmptySet
<1>8. Calm(I, L) \in 0..5
  BY <1>3, <1>4 DEF Calm
<1> QED
  BY <1>3, <1>4, <1>5, <1>6, <1>7, <1>8

LEMMA SumsGrow ==
  ASSUME NEW I, NEW J, NEW L, IsFiniteSet(L),
         \A l \in L : I[l] \in Lesson /\ J[l] \in Lesson /\ AtLeast(J[l], I[l])
  PROVE  /\ LessonSums(I, L) <= LessonSums(J, L)
         /\ Calm(I, L) <= Calm(J, L)
         /\ PointsOf(I, L, SubjectPoints) <= PointsOf(J, L, SubjectPoints)
<1> DEFINE points(K) == [l \in L |-> LessonPoints(K[l])]
           tags(K) == [l \in L |-> Violations(K[l])]
           marks(K) == [l \in L |-> SubjectPoints(K[l])]
<1>1. \A l \in L :
        /\ points(I)[l] \in Int /\ points(J)[l] \in Int /\ points(I)[l] <= points(J)[l]
        /\ tags(I)[l] \in Int /\ tags(J)[l] \in Int /\ tags(J)[l] <= tags(I)[l]
        /\ marks(I)[l] \in Int /\ marks(J)[l] \in Int /\ marks(I)[l] <= marks(J)[l]
  BY PointsTyped, PointsGrow
<1>2. \A K : /\ LessonSums(K, L) = Sum(L, points(K)) /\ TagSums(K, L) = Sum(L, tags(K))
             /\ PointsOf(K, L, SubjectPoints) = Sum(L, marks(K))
  BY DEF LessonSums, TagSums, PointsOf
<1> HIDE DEF points, tags, marks
<1>3. /\ Sum(L, points(I)) <= Sum(L, points(J)) /\ Sum(L, tags(J)) <= Sum(L, tags(I))
      /\ Sum(L, marks(I)) <= Sum(L, marks(J))
  BY <1>1, SumAtMost
<1>4. TagSums(I, L) \in Nat /\ TagSums(J, L) \in Nat /\ TagSums(J, L) <= TagSums(I, L)
  BY <1>2, <1>3, SumsTyped
<1>5. Calm(I, L) <= Calm(J, L)
  BY <1>4 DEF Calm
<1> QED
  BY <1>2, <1>3, <1>5

\* Of n lessons the base is at most 800 n, and grows with the lessons.
LEMMA BaseTyped ==
  ASSUME NEW I, NEW L, IsFiniteSet(L), \A l \in L : I[l] \in Lesson
  PROVE  Base(I, L) \in Int /\ 0 <= Base(I, L) /\ Base(I, L) <= 800 * Cardinality(L)
<1> DEFINE n == Cardinality(L)
           calm == Calm(I, L)
           sum == LessonSums(I, L)
<1>1. n \in Nat /\ calm \in 0..5 /\ sum \in Int /\ 0 <= sum /\ sum <= 750 * n
  BY SumsTyped
<1>2. Base(I, L) = 10 * n * calm + sum
  BY BaseSums
<1> HIDE DEF n, calm, sum
<1>3. (10 * n) * 0 <= (10 * n) * calm /\ (10 * n) * calm <= (10 * n) * 5 /\ (10 * n) * calm \in Int
  <2>1. 10 * n \in Nat /\ calm \in Int /\ 0 <= calm /\ calm <= 5
    BY <1>1
  <2> QED
    BY <2>1, ProductGrows
<1>4. 10 * n * calm = (10 * n) * calm
  OBVIOUS
<1>5. Base(I, L) \in Int /\ 0 <= Base(I, L) /\ Base(I, L) <= 800 * n
  BY <1>1, <1>2, <1>3, <1>4
<1> QED
  BY <1>5 DEF n

LEMMA BaseGrows ==
  ASSUME NEW I, NEW J, NEW L, IsFiniteSet(L),
         \A l \in L : I[l] \in Lesson /\ J[l] \in Lesson /\ AtLeast(J[l], I[l])
  PROVE  Base(I, L) <= Base(J, L)
<1> DEFINE n == Cardinality(L)
           calm(K) == Calm(K, L)
           sum(K) == LessonSums(K, L)
<1>1. /\ n \in Nat /\ calm(I) \in 0..5 /\ calm(J) \in 0..5 /\ sum(I) \in Int /\ sum(J) \in Int
      /\ calm(I) <= calm(J) /\ sum(I) <= sum(J)
  BY SumsTyped, SumsGrow
<1>2. Base(I, L) = 10 * n * calm(I) + sum(I) /\ Base(J, L) = 10 * n * calm(J) + sum(J)
  BY BaseSums
<1> HIDE DEF n, calm, sum
<1>3. /\ (10 * n) * calm(I) <= (10 * n) * calm(J)
      /\ (10 * n) * calm(I) \in Int /\ (10 * n) * calm(J) \in Int
  <2>1. 10 * n \in Nat /\ calm(I) \in Int /\ calm(J) \in Int
    BY <1>1
  <2> QED
    BY <1>1, <2>1, ProductGrows
<1> QED
  BY <1>1, <1>2, <1>3

LEMMA ProgressTyped ==
  ASSUME NEW n, NEW base, NEW previous
  PROVE  Progress(n, base, previous) \in {8, 12, 16, 20}
BY DEF Progress

\* The index of a week before, or none in both cases
NoHigher(p, q) == (p = Unset /\ q = Unset) \/ (p \in Int /\ q \in Int /\ p <= q)

LEMMA ProgressGrows ==
  ASSUME NEW n \in Nat, NEW a \in Int, NEW b \in Int, a <= b, NEW p, NEW q, NoHigher(q, p)
  PROVE  Progress(n, a, p) <= Progress(n, b, q)
<1>1. CASE p = Unset /\ q = Unset
  BY <1>1 DEF Progress
<1>2. CASE p \in Int /\ q \in Int /\ q <= p
  <2> DEFINE x == 5 * a - 4 * n * p
             y == 5 * b - 4 * n * q
  <2>1. x \in Int /\ y \in Int /\ x <= y
    <3>1. (4 * n) * q <= (4 * n) * p /\ (4 * n) * p \in Int /\ (4 * n) * q \in Int
      BY <1>2, ProductGrows
    <3> QED
      BY <3>1
  <2>2. Progress(n, a, p) = IF x >= -100 * n /\ x < 100 * n THEN 16
                            ELSE IF x >= 100 * n THEN 20 ELSE IF x >= -280 * n THEN 12 ELSE 8
    BY <1>2, WeekConstants DEF Progress
  <2>3. Progress(n, b, q) = IF y >= -100 * n /\ y < 100 * n THEN 16
                            ELSE IF y >= 100 * n THEN 20 ELSE IF y >= -280 * n THEN 12 ELSE 8
    BY <1>2, WeekConstants DEF Progress
  <2> HIDE DEF x, y
  <2> QED
    BY <2>1, <2>2, <2>3
<1> QED
  BY <1>1, <1>2 DEF NoHigher

\* Ten points out of a hundred are 10 n more of n lessons.
IndexSum(n, base, previous) == 2 * (base + 10 * n * Progress(n, base, previous)) + n

LEMMA IndexWithin ==
  ASSUME NEW I, NEW L, IsFiniteSet(L), L # {}, \A l \in L : I[l] \in Lesson, NEW previous
  PROVE  Sqi(I, L, previous) \in 0..1000
<1> DEFINE n == Cardinality(L)
           base == Base(I, L)
           p == Progress(n, base, previous)
           sum == IndexSum(n, base, previous)
<1>1. n \in Nat /\ n > 0
  BY SumsTyped
<1>2. base \in Int /\ 0 <= base /\ base <= 800 * n
  BY BaseTyped
<1>3. p \in {8, 12, 16, 20}
  BY ProgressTyped
<1>4. Sqi(I, L, previous) = sum \div (2 * n)
  BY DEF Sqi, IndexSum
<1>5. sum = 2 * (base + 10 * n * p) + n
  BY DEF IndexSum
<1> HIDE DEF n, base, p, sum
<1>6. sum \in Int /\ 0 <= sum /\ sum < (2 * n) * 1000 + 2 * n
  BY <1>1, <1>2, <1>3, <1>5
<1>7. sum \div (2 * n) \in 0..1000
  <2>1. 2 * n \in Nat \ {0}
    BY <1>1
  <2> QED
    BY <1>6, <2>1, QuotientWithin
<1> QED
  BY <1>4, <1>7

LEMMA IndexGrows ==
  ASSUME NEW I, NEW J, NEW L, IsFiniteSet(L), L # {},
         \A l \in L : I[l] \in Lesson /\ J[l] \in Lesson /\ AtLeast(J[l], I[l]),
         NEW p, NEW q, NoHigher(q, p)
  PROVE  Sqi(I, L, p) <= Sqi(J, L, q)
<1> DEFINE n == Cardinality(L)
           a == Base(I, L)
           b == Base(J, L)
           x == Progress(n, a, p)
           y == Progress(n, b, q)
           s == IndexSum(n, a, p)
           t == IndexSum(n, b, q)
<1>1. n \in Nat /\ n > 0
  <2>1. \A l \in L : I[l] \in Lesson
    OBVIOUS
  <2> QED
    BY <2>1, SumsTyped
<1>2. a \in Int /\ b \in Int /\ a <= b
  BY BaseTyped, BaseGrows
<1>3. x <= y /\ x \in {8, 12, 16, 20} /\ y \in {8, 12, 16, 20}
  <2>1. x \in {8, 12, 16, 20} /\ y \in {8, 12, 16, 20}
    BY ProgressTyped
  <2> HIDE DEF n, a, b
  <2>2. x <= y
    BY <1>1, <1>2, ProgressGrows
  <2> QED
    BY <2>1, <2>2
<1>4. Sqi(I, L, p) = s \div (2 * n) /\ Sqi(J, L, q) = t \div (2 * n)
  BY DEF Sqi, IndexSum
<1>5. s = 2 * (a + 10 * n * x) + n /\ t = 2 * (b + 10 * n * y) + n
  BY DEF IndexSum
<1> HIDE DEF n, a, b, x, y, s, t
<1>6. s \in Int /\ t \in Int /\ s <= t
  <2>1. (10 * n) * x <= (10 * n) * y /\ (10 * n) * x \in Int /\ (10 * n) * y \in Int
    <3>1. 10 * n \in Nat /\ x \in Int /\ y \in Int
      BY <1>1, <1>3
    <3> QED
      BY <1>3, <3>1, ProductGrows
  <2>2. PICK u \in Int, v \in Int : u = 10 * n * x /\ v = 10 * n * y /\ u <= v
    BY <2>1
  <2>3. s = 2 * (a + u) + n /\ t = 2 * (b + v) + n
    BY <1>5, <2>2, Zenon
  <2> QED
    BY <1>1, <1>2, <2>2, <2>3
<1>7. s \div (2 * n) <= t \div (2 * n)
  <2>1. 2 * n \in Nat \ {0}
    BY <1>1
  <2> QED
    BY <1>6, <2>1, QuotientGrows
<1> QED
  BY <1>4, <1>7

-----------------------------------------------------------------------------
(* What the reports show.                                                   *)

\* The inputs J are of a better week than I, over the same lessons.
Better(I, J) ==
  /\ I \in [Taught -> Lesson] /\ J \in [Taught -> Lesson]
  /\ Week(I, ThisWeek) # {}
  /\ Week(J, ThisWeek) = Week(I, ThisWeek) /\ Week(J, LastWeek) = Week(I, LastWeek)
  /\ \A l \in Week(I, ThisWeek) : AtLeast(J[l], I[l])
  /\ \A l \in Week(I, LastWeek) : AtLeast(I[l], J[l])

LEMMA WeekFinite ==
  ASSUME NEW I
  PROVE  /\ IsFiniteSet(Week(I, ThisWeek)) /\ Week(I, ThisWeek) \subseteq Taught
         /\ IsFiniteSet(Week(I, LastWeek)) /\ Week(I, LastWeek) \subseteq Taught
<1>1. Week(I, ThisWeek) \subseteq ThisWeek /\ Week(I, LastWeek) \subseteq LastWeek
  BY DEF Week
<1> QED
  BY <1>1, FS_Subset, WeekConstants DEF Taught

LEMMA BetterLessons ==
  ASSUME NEW I, NEW J, Better(I, J)
  PROVE  /\ \A l \in Week(I, ThisWeek) : I[l] \in Lesson /\ J[l] \in Lesson /\ AtLeast(J[l], I[l])
         /\ \A l \in Week(I, LastWeek) : I[l] \in Lesson /\ J[l] \in Lesson /\ AtLeast(I[l], J[l])
BY WeekFinite DEF Better

LEMMA WeeklyGrows ==
  ASSUME NEW I, NEW J, Better(I, J)
  PROVE  /\ WeeklySqi(I) \in 0..1000 /\ WeeklySqi(J) \in 0..1000
         /\ WeeklySqi(I) <= WeeklySqi(J)
<1> DEFINE L == Week(I, ThisWeek)
           M == Week(I, LastWeek)
           p == Sqi(I, M, Unset)
           q == Sqi(J, M, Unset)
<1>1. IsFiniteSet(L) /\ L # {} /\ IsFiniteSet(M)
  BY WeekFinite DEF Better
<1>2. WeeklySqi(I) = Sqi(I, L, p) /\ WeeklySqi(J) = Sqi(J, L, q)
  BY DEF WeeklySqi, Better
<1>3. /\ \A l \in L : I[l] \in Lesson /\ J[l] \in Lesson /\ AtLeast(J[l], I[l])
      /\ \A l \in M : J[l] \in Lesson /\ I[l] \in Lesson /\ AtLeast(I[l], J[l])
  BY BetterLessons
<1>4. NoHigher(q, p)
  <2>1. CASE M = {}
    BY <2>1 DEF Sqi, NoHigher
  <2>2. CASE M # {}
    <3>1. \A l \in M : I[l] \in Lesson
      BY <1>3
    <3>2. \A l \in M : J[l] \in Lesson
      BY <1>3
    <3>3. p \in 0..1000 /\ q \in 0..1000
      BY <1>1, <2>2, <3>1, <3>2, IndexWithin
    <3>4. NoHigher(Unset, Unset)
      BY DEF NoHigher
    <3>5. q <= p
      BY <1>1, <1>3, <2>2, <3>4, IndexGrows
    <3> QED
      BY <3>3, <3>5 DEF NoHigher
  <2> QED
    BY <2>1, <2>2
<1> HIDE DEF p, q, L, M
<1>5. Sqi(I, L, p) \in 0..1000
  <2>1. \A l \in L : I[l] \in Lesson
    BY <1>3
  <2> QED
    BY <1>1, <2>1, IndexWithin
<1>6. Sqi(J, L, q) \in 0..1000
  <2>1. \A l \in L : J[l] \in Lesson
    BY <1>3
  <2> QED
    BY <1>1, <2>1, IndexWithin
<1>7. Sqi(I, L, p) <= Sqi(J, L, q)
  BY <1>1, <1>3, <1>4, IndexGrows
<1> QED
  BY <1>2, <1>5, <1>6, <1>7

LEMMA MeanGrows ==
  ASSUME NEW n \in Nat \ {0}, NEW a \in Int, NEW b \in Int, a <= b
  PROVE  Mean(a, n) \in Int /\ Mean(b, n) \in Int /\ Mean(a, n) <= Mean(b, n)
<1>1. 2 * n \in Nat \ {0} /\ 2 * a + n \in Int /\ 2 * b + n \in Int /\ 2 * a + n <= 2 * b + n
  OBVIOUS
<1>2. (2 * a + n) \div (2 * n) <= (2 * b + n) \div (2 * n)
  BY <1>1, QuotientGrows
<1>3. (2 * a + n) \div (2 * n) \in Int /\ (2 * b + n) \div (2 * n) \in Int
  BY <1>1, Quotient
<1> QED
  BY <1>2, <1>3 DEF Mean

LEMMA SubjectGrows ==
  ASSUME NEW I, NEW J, NEW L, IsFiniteSet(L), L # {},
         \A l \in L : I[l] \in Lesson /\ J[l] \in Lesson /\ AtLeast(J[l], I[l])
  PROVE  /\ SubjectScore(I, L) \in Int /\ SubjectScore(J, L) \in Int
         /\ SubjectScore(I, L) <= SubjectScore(J, L)
<1> DEFINE n == Cardinality(L)
           a == PointsOf(I, L, SubjectPoints)
           b == PointsOf(J, L, SubjectPoints)
<1>1. n \in Nat \ {0} /\ a \in Int
  <2>1. \A l \in L : I[l] \in Lesson
    OBVIOUS
  <2>2. n \in Nat /\ n > 0 /\ a \in Nat
    BY <2>1, SumsTyped
  <2> HIDE DEF a, n
  <2> QED
    BY <2>2
<1>2. b \in Int
  <2>1. \A l \in L : J[l] \in Lesson
    OBVIOUS
  <2> QED
    BY <2>1, SumsTyped
<1>3. a <= b
  BY SumsGrow
<1>4. SubjectScore(I, L) = Mean(a, n) /\ SubjectScore(J, L) = Mean(b, n)
  BY DEF SubjectScore
<1> HIDE DEF a, b, n
<1> QED
  BY <1>1, <1>2, <1>3, <1>4, MeanGrows

LEMMA TrendGrows ==
  ASSUME NEW I, NEW J, Better(I, J)
  PROVE  /\ SubjectTrend(I) = "up" => SubjectTrend(J) = "up"
         /\ SubjectTrend(J) = "down" => SubjectTrend(I) = "down"
<1> DEFINE L == Week(I, ThisWeek)
           M == Week(I, LastWeek)
           a == SubjectScore(I, L)
           b == SubjectScore(J, L)
           c == SubjectScore(I, M)
           d == SubjectScore(J, M)
<1>1. IsFiniteSet(L) /\ L # {} /\ IsFiniteSet(M)
  BY WeekFinite DEF Better
<1>2. /\ \A l \in L : I[l] \in Lesson /\ J[l] \in Lesson /\ AtLeast(J[l], I[l])
      /\ \A l \in M : J[l] \in Lesson /\ I[l] \in Lesson /\ AtLeast(I[l], J[l])
  BY BetterLessons
<1>3. a \in Int /\ b \in Int /\ a <= b
  BY <1>1, <1>2, SubjectGrows
<1>4. /\ SubjectTrend(I) = IF c = Unset THEN "new"
                           ELSE IF a - c > 1 THEN "up" ELSE IF a - c < -1 THEN "down" ELSE "stable"
      /\ SubjectTrend(J) = IF d = Unset THEN "new"
                           ELSE IF b - d > 1 THEN "up" ELSE IF b - d < -1 THEN "down" ELSE "stable"
  BY DEF SubjectTrend, Better
<1>5. CASE M = {}
  <2>1. c = Unset /\ d = Unset
    BY <1>5 DEF SubjectScore
  <2> HIDE DEF a, b, c, d
  <2> QED
    BY <1>4, <2>1
<1>6. CASE M # {}
  <2>1. d \in Int /\ c \in Int /\ d <= c
    BY <1>1, <1>2, <1>6, SubjectGrows
  <2> HIDE DEF a, b, c, d
  <2> QED
    BY <1>3, <1>4, <2>1, WeekConstants
<1> QED
  BY <1>5, <1>6

LEMMA LevelGrows ==
  ASSUME NEW x \in Int, NEW y \in Int, x <= y
  PROVE  /\ SqiLevel(x) \in 1..5 /\ SqiLevel(y) \in 1..5 /\ SqiLevel(x) <= SqiLevel(y)
         /\ Overview(x) <= Overview(y)
BY DEF SqiLevel, Overview

LEMMA ReportGrows ==
  ASSUME NEW I, NEW J, Better(I, J)
  PROVE  NoWorse(WeeklyReport(J), WeeklyReport(I))
<1> DEFINE L == Week(I, ThisWeek)
           x == WeeklySqi(I)
           y == WeeklySqi(J)
<1>1. IsFiniteSet(L) /\ L # {} /\ Week(J, ThisWeek) = L
  BY WeekFinite DEF Better
<1>2. \A l \in L : I[l] \in Lesson /\ J[l] \in Lesson /\ AtLeast(J[l], I[l])
  BY BetterLessons
<1>3. x \in Int /\ y \in Int /\ x <= y
  BY WeeklyGrows
<1>4. SqiLevel(x) <= SqiLevel(y) /\ Overview(x) <= Overview(y)
  <2> HIDE DEF x, y
  <2> QED
    BY <1>3, LevelGrows
<1>5. SubjectScore(I, L) <= SubjectScore(J, L)
  BY <1>1, <1>2, SubjectGrows
<1>6. /\ Here(I, L) \subseteq Here(J, L) /\ HomeworkDone(I, L) \subseteq HomeworkDone(J, L)
      /\ Understood(I, L) \subseteq Understood(J, L) /\ Active(I, L) \subseteq Active(J, L)
      /\ Here(J, L) \subseteq L /\ HomeworkDone(J, L) \subseteq L /\ Understood(J, L) \subseteq L
  BY <1>2, PointsGrow DEF Here, HomeworkDone, Understood, Active
<1>7. Strengths(I, L) \subseteq Strengths(J, L)
  BY <1>6 DEF Strengths
<1>8. Improvements(J, L) \subseteq Improvements(I, L)
  BY <1>6 DEF Improvements
<1>9. /\ SubjectTrend(I) = "up" => SubjectTrend(J) = "up"
      /\ SubjectTrend(J) = "down" => SubjectTrend(I) = "down"
  BY TrendGrows
<1>10. /\ WeeklyReport(I) =
            [sqi |-> x, level |-> SqiLevel(x), subject |-> SubjectScore(I, L),
             trend |-> SubjectTrend(I), overview |-> Overview(x),
             strengths |-> Strengths(I, L), improvements |-> Improvements(I, L)]
       /\ WeeklyReport(J) =
            [sqi |-> y, level |-> SqiLevel(y), subject |-> SubjectScore(J, L),
             trend |-> SubjectTrend(J), overview |-> Overview(y),
             strengths |-> Strengths(J, L), improvements |-> Improvements(J, L)]
  BY <1>1 DEF WeeklyReport
<1> HIDE DEF x, y, L
<1> QED
  BY <1>3, <1>4, <1>5, <1>7, <1>8, <1>9, <1>10 DEF NoWorse

\* The classmates' indexes and the student's own, x
Indexes(x) == Append(Peers, x)
Indexed(x) == {k \in DOMAIN Indexes(x) : Indexes(x)[k] # Unset}
AtLevel(x, grade) == {k \in Indexed(x) : SqiLevel(Indexes(x)[k]) = grade}

\* The indexes that count are the same, and each is as high or higher.
LEMMA IndexesGrow ==
  ASSUME NEW x \in Int, NEW y \in Int, x <= y
  PROVE  /\ Indexed(x) = Indexed(y) /\ IsFiniteSet(Indexed(x)) /\ Indexed(x) # {}
         /\ \A k \in Indexed(x) :
              Indexes(x)[k] \in Int /\ Indexes(y)[k] \in Int /\ Indexes(x)[k] <= Indexes(y)[k]
<1> DEFINE n == Len(Peers)
<1>1. /\ n \in Nat /\ Peers \in Seq(Int \union {Unset})
      /\ \A k \in 1..n : Peers[k] \in Int \union {Unset}
  BY WeekConstants
<1>2. \A z \in Int : /\ DOMAIN Indexes(z) = 1..(n + 1) /\ Indexes(z)[n + 1] = z
                     /\ \A k \in 1..n : Indexes(z)[k] = Peers[k]
  BY <1>1 DEF Indexes
<1> HIDE DEF n
<1>3. \A z \in Int : Indexed(z) = {k \in 1..n : Peers[k] # Unset} \union {n + 1}
  <2> SUFFICES ASSUME NEW z \in Int, NEW k
               PROVE  k \in Indexed(z) <=> k \in {j \in 1..n : Peers[j] # Unset} \union {n + 1}
    OBVIOUS
  <2>1. CASE k = n + 1
    BY <1>1, <1>2, <2>1, WeekConstants DEF Indexed
  <2>2. CASE k # n + 1
    BY <1>1, <1>2, <2>2 DEF Indexed
  <2> QED
    BY <2>1, <2>2
<1>4. IsFiniteSet(Indexed(x))
  <2>1. IsFiniteSet(1..(n + 1)) /\ Indexed(x) \subseteq 1..(n + 1)
    BY <1>1, <1>2, FS_Interval DEF Indexed
  <2> QED
    BY <2>1, FS_Subset
<1>5. ASSUME NEW k \in Indexed(x)
      PROVE  Indexes(x)[k] \in Int /\ Indexes(y)[k] \in Int /\ Indexes(x)[k] <= Indexes(y)[k]
  BY <1>1, <1>2, <1>3, <1>5
<1> QED
  BY <1>3, <1>4, <1>5

\* Of a level or a higher one there are as many or more.
LEMMA LevelsGrow ==
  ASSUME NEW x \in Int, NEW y \in Int, x <= y, NEW k \in 1..5
  PROVE  Sum(k..5, [grade \in 1..5 |-> Cardinality(AtLevel(x, grade))])
           <= Sum(k..5, [grade \in 1..5 |-> Cardinality(AtLevel(y, grade))])
<1> DEFINE V == Indexed(x)
           From(z) == {j \in V : SqiLevel(Indexes(z)[j]) >= k}
           students(z) == [grade \in 1..5 |-> Cardinality(AtLevel(z, grade))]
           part(z) == [grade \in k..5 |-> AtLevel(z, grade)]
<1>1. /\ Indexed(y) = V /\ IsFiniteSet(V)
      /\ \A j \in V : /\ Indexes(x)[j] \in Int /\ Indexes(y)[j] \in Int
                      /\ Indexes(x)[j] <= Indexes(y)[j]
  BY IndexesGrow
<1>2. \A j \in V : /\ SqiLevel(Indexes(x)[j]) \in 1..5 /\ SqiLevel(Indexes(y)[j]) \in 1..5
                  /\ SqiLevel(Indexes(x)[j]) <= SqiLevel(Indexes(y)[j])
  BY <1>1, LevelGrows
<1>3. IsFiniteSet(From(x)) /\ IsFiniteSet(From(y))
  BY <1>1, FS_Subset
<1>4. From(x) \subseteq From(y)
  BY <1>2
<1>5. Cardinality(From(x)) <= Cardinality(From(y))
  BY <1>3, <1>4, FS_Subset
<1>6. ASSUME NEW z \in {x, y}
      PROVE  Cardinality(From(z)) = Sum(k..5, students(z))
  <2>1. IsFiniteSet(k..5)
    BY FS_Interval
  <2>2. \A j \in From(z) : \E c \in k..5 : j \in part(z)[c]
    BY <1>1, <1>2 DEF AtLevel
  <2>3. \A c \in k..5 : part(z)[c] \subseteq From(z)
    BY <1>1 DEF AtLevel
  <2>4. \A c \in k..5 : students(z)[c] = Cardinality(part(z)[c])
    OBVIOUS
  <2>5. \A c, d \in k..5 : c # d => part(z)[c] \cap part(z)[d] = {}
    BY DEF AtLevel
  <2>6. IsFiniteSet(From(z))
    BY <1>3
  <2> HIDE DEF From, part, students
  <2> QED
    BY <2>1, <2>2, <2>3, <2>4, <2>5, <2>6, CountParts
<1>7. Sum(k..5, students(x)) <= Sum(k..5, students(y))
  BY <1>5, <1>6
<1> QED
  BY <1>7

LEMMA AverageGrows ==
  ASSUME NEW x \in Int, NEW y \in Int, x <= y
  PROVE  Mean(Sum(Indexed(x), Indexes(x)), Cardinality(Indexed(x)))
           <= Mean(Sum(Indexed(y), Indexes(y)), Cardinality(Indexed(y)))
<1> DEFINE V == Indexed(x)
           a == Sum(V, Indexes(x))
           b == Sum(V, Indexes(y))
           n == Cardinality(V)
<1>1. /\ Indexed(y) = V /\ IsFiniteSet(V) /\ V # {}
      /\ \A j \in V : /\ Indexes(x)[j] \in Int /\ Indexes(y)[j] \in Int
                      /\ Indexes(x)[j] <= Indexes(y)[j]
  BY IndexesGrow
<1>2. n \in Nat \ {0}
  BY <1>1, FS_CardinalityType, FS_EmptySet
<1> HIDE DEF V, n
<1>3. a \in Int /\ b \in Int /\ a <= b
  <2>1. \A j \in V : Indexes(x)[j] \in Int
    BY <1>1
  <2>2. \A j \in V : Indexes(y)[j] \in Int
    BY <1>1
  <2> QED
    BY <1>1, <2>1, <2>2, SumInt, SumAtMost
<1> HIDE DEF a, b
<1>4. Mean(a, n) <= Mean(b, n)
  BY <1>2, <1>3, MeanGrows
<1> QED
  BY <1>1, <1>4 DEF a, b, n, V

LEMMA RateGrows ==
  ASSUME NEW L, IsFiniteSet(L), NEW S, NEW T, S \subseteq T, T \subseteq L
  PROVE  Percent(S, L) <= Percent(T, L)
<1>1. CASE L = {}
  BY <1>1 DEF Percent
<1>2. CASE L # {}
  <2> DEFINE n == Cardinality(L)
             a == 100 * Cardinality(S)
             b == 100 * Cardinality(T)
  <2>1. IsFiniteSet(T) /\ IsFiniteSet(S) /\ Cardinality(S) <= Cardinality(T)
    BY FS_Subset
  <2>2. a \in Int /\ b \in Int /\ a <= b
    BY <2>1, FS_CardinalityType
  <2>3. n \in Nat \ {0}
    BY <1>2, FS_CardinalityType, FS_EmptySet
  <2>4. Percent(S, L) = Mean(a, n) /\ Percent(T, L) = Mean(b, n)
    BY <1>2 DEF Percent
  <2> HIDE DEF a, b, n
  <2> QED
    BY <2>2, <2>3, <2>4, MeanGrows
<1> QED
  BY <1>1, <1>2

LEMMA ClassGrows ==
  ASSUME NEW I, NEW J, Better(I, J)
  PROVE  NoWorseClass(ClassReport(J), ClassReport(I))
<1> DEFINE L == Week(I, ThisWeek)
           x == WeeklySqi(I)
           y == WeeklySqi(J)
           report(K, z) ==
             [average |-> IF Indexed(z) = {} THEN 0
                          ELSE Mean(Sum(Indexed(z), Indexes(z)), Cardinality(Indexed(z))),
              students |-> [grade \in 1..5 |-> Cardinality(AtLevel(z, grade))],
              attendance |-> Percent(Here(K, L), L),
              homework |-> Percent(HomeworkDone(K, L), L)]
<1>1. IsFiniteSet(L) /\ Week(J, ThisWeek) = L
  BY WeekFinite DEF Better
<1>2. \A l \in L : I[l] \in Lesson /\ J[l] \in Lesson /\ AtLeast(J[l], I[l])
  BY BetterLessons
<1>3. x \in Int /\ y \in Int /\ x <= y
  BY WeeklyGrows
<1>4. ClassReport(I) = report(I, x) /\ ClassReport(J) = report(J, y)
  BY <1>1 DEF ClassReport, Indexed, Indexes, AtLevel
<1>5. /\ Here(I, L) \subseteq Here(J, L) /\ HomeworkDone(I, L) \subseteq HomeworkDone(J, L)
      /\ Here(J, L) \subseteq L /\ HomeworkDone(J, L) \subseteq L
  BY <1>2, PointsGrow DEF Here, HomeworkDone
<1>6. /\ Percent(Here(I, L), L) <= Percent(Here(J, L), L)
      /\ Percent(HomeworkDone(I, L), L) <= Percent(HomeworkDone(J, L), L)
  BY <1>1, <1>5, RateGrows
<1> HIDE DEF x, y, L
<1>7. report(I, x).average <= report(J, y).average
  <2>1. Indexed(x) # {} /\ Indexed(y) # {}
    BY <1>3, IndexesGrow
  <2> QED
    BY <1>3, <2>1, AverageGrows
<1>8. \A k \in 1..5 : Sum(k..5, report(I, x).students) <= Sum(k..5, report(J, y).students)
  BY <1>3, LevelsGrow
<1> QED
  BY <1>4, <1>6, <1>7, <1>8 DEF NoWorseClass

\* A change that makes a lesson of the week better and none worse, or one of last
\* week worse, never lowers the index, its level, the subject's score or trend, a
\* rate or the class average, never drops a strength and never adds something to
\* improve; the index stays between 0 and 100.
THEOREM BetterHelps == WeekSpec => BetterLessonHelps
<1>1. InputsTyped /\ InputsTyped' =>
        [LET old == Inputs
             new == Inputs'
             same(W) == Week(new, W) = Week(old, W)
         IN (/\ new # old /\ Week(old, ThisWeek) # {} /\ same(ThisWeek) /\ same(LastWeek)
             /\ \A l \in Week(old, ThisWeek) : AtLeast(new[l], old[l])
             /\ \A l \in Week(old, LastWeek) : AtLeast(old[l], new[l]))
            => /\ WeeklySqi(new) \in 0..1000
               /\ NoWorse(WeeklyReport(new), WeeklyReport(old))
               /\ NoWorseClass(ClassReport(new), ClassReport(old))]_reportWeekVars
  <2> DEFINE I == Inputs
             J == Inputs'
  <2> SUFFICES ASSUME I \in [Taught -> Lesson], J \in [Taught -> Lesson],
                      Week(I, ThisWeek) # {}, Week(J, ThisWeek) = Week(I, ThisWeek),
                      Week(J, LastWeek) = Week(I, LastWeek),
                      \A l \in Week(I, ThisWeek) : AtLeast(J[l], I[l]),
                      \A l \in Week(I, LastWeek) : AtLeast(I[l], J[l])
               PROVE  /\ WeeklySqi(J) \in 0..1000
                      /\ NoWorse(WeeklyReport(J), WeeklyReport(I))
                      /\ NoWorseClass(ClassReport(J), ClassReport(I))
    BY DEF InputsTyped
  <2> HIDE DEF I, J
  <2>1. Better(I, J)
    BY DEF Better
  <2> QED
    BY <2>1, WeeklyGrows, ReportGrows, ClassGrows
<1> QED
  BY <1>1, WeekStarts, WeekKeeps, LessonsRead, PTL DEF WeekSpec, BetterLessonHelps
=============================================================================
