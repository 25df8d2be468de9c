---------------------------- MODULE PriceTimeline ----------------------------
(***************************************************************************)
(* course_level_pricing of one level: what a lesson costs and what it pays *)
(* on each date, and the guards that keep charged dates as they were.      *)
(* Requests run one after another; the checks and the save of two of them  *)
(* at once are not ordered by the code.  Dates are numbers; open-ended     *)
(* records, which old tables and new levels have, end with the last date.  *)
(***************************************************************************)
EXTENDS Integers, FiniteSets

CONSTANTS
  PriceRate,   \* which amount: price, teacher's wage, assistant's wage
  PriceDate,   \* dates, 1..n
  PriceId,     \* ids in order of creation, 1..n: the bound on records
  Amount,      \* amounts, 0 included
  LastDay,     \* the bound on today
  LegacyPrices \* tables older than the overlap check

ASSUME PriceConstants ==
  /\ PriceDate \subseteq Nat \ {0} /\ PriceId \subseteq Nat
  /\ 1 \in PriceDate /\ LastDay \in PriceDate
  /\ \A d \in 1..LastDay : d \in PriceDate
  /\ Amount \subseteq Nat /\ 0 \in Amount

VARIABLES
  price,   \* records by id
  billed,  \* dates of billed lessons, by rate
  today,
  dateText \* does the driver hand MAX(date) over as text?  See Settled.

priceVars == <<price, billed, today, dateText>>

NoPrice == [type |-> "none", from |-> 0, to |-> 0, amount |-> [r \in PriceRate |-> 0]]

Price ==
  [type : PriceRate, from : PriceDate, to : PriceDate \union {0},
   amount : [PriceRate -> Amount]]

ASSUME LegacyTyped == LegacyPrices \subseteq [PriceId -> Price \union {NoPrice}]

\* What a request may ask for; other dates are refused.
PriceRequest == {new \in Price : new.from <= new.to}

Priced == {i \in PriceId : price[i] # NoPrice}

PriceInit ==
  /\ price \in LegacyPrices
  /\ billed = [r \in PriceRate |-> {}]
  /\ today = 1
  /\ dateText \in BOOLEAN

-----------------------------------------------------------------------------
\* getActivePricing: the record created last among those of the type that
\* cover the date and have an amount; 0 if there is none
Covers(i, r, d) ==
  price[i].type = r /\ price[i].from <= d /\ d <= price[i].to

Applies(i, r, d) == Covers(i, r, d) /\ price[i].amount[r] > 0

Charged(r, d) ==
  LET A == {i \in Priced : Applies(i, r, d)}
  IN IF A = {} THEN 0
     ELSE price[CHOOSE i \in A : \A j \in A : j <= i].amount[r]

\* getMaxStudentBillDate, getMaxTeacherWageDate, getMaxAssistantWageDate: is
\* date d at or before the last one?  The port promises text and its tests give
\* text, but the query is a raw one, for which the parsers pg comes with make a
\* Date; in JavaScript no text of a date is <= a Date.
Settled(r, d) == dateText /\ \E b \in billed[r] : d <= b

\* Two ranges that touch overlap.
Touch(a, b) == a.from <= b.to /\ b.from <= a.to

-----------------------------------------------------------------------------
\* Mutant: the overlap check looks at the first date only.
Overlapping_FirstDate(new, old) == old.from <= new.from /\ new.from <= old.to

Overlapping(new, old) == Touch(new, old)

\* CreateCourseLevelPricingUseCase: for each amount, after the last charged
\* date and apart from the records of that amount's type.  The request may name
\* another type for the record itself.
CreatePrice(i, new) ==
  /\ price[i] = NoPrice
  /\ \A j \in PriceId : j > i => price[j] = NoPrice
  /\ \E r \in PriceRate : new.amount[r] > 0
  /\ \A r \in PriceRate : new.amount[r] > 0 =>
       /\ ~Settled(r, new.from)
       /\ \A j \in Priced : price[j].type = r => ~Overlapping(new, price[j])
  /\ price' = [price EXCEPT ![i] = new]
  /\ UNCHANGED <<billed, today, dateText>>

\* Mutant: an amount may change as long as the record has not ended.
AmountOpen_Running(old, r) == today <= old.to

\* An amount changes only if no lesson from the record's first date on has
\* been charged.
AmountOpen(old, r) == ~Settled(r, old.from)

FromOpen(old, new) ==
  old.from > today /\ new.from > today /\ ~Settled(old.type, new.from)

ToOpen(old, new) ==
  old.to > today /\ new.to >= today /\ ~Settled(old.type, new.to)

\* UpdateCourseLevelPricingUseCase; a new type is neither checked against
\* charged dates nor against the records of that type.
UpdatePrice(i, new) ==
  LET old == price[i]
      moved == new.from # old.from \/ new.to # old.to
  IN /\ i \in Priced
     /\ \A r \in PriceRate : new.amount[r] # old.amount[r] => AmountOpen(old, r)
     /\ new.from # old.from => FromOpen(old, new)
     /\ new.to # old.to => ToOpen(old, new)
     /\ moved => \A j \in Priced \ {i} :
          price[j].type = old.type => ~Overlapping(new, price[j])
     /\ price' = [price EXCEPT ![i] = new]
     /\ UNCHANGED <<billed, today, dateText>>

\* DeleteCourseLevelPricingUseCase
DeletePrice(i) ==
  /\ i \in Priced
  /\ \A d \in billed[price[i].type] : ~(price[i].from <= d /\ d <= price[i].to)
  /\ price' = [price EXCEPT ![i] = NoPrice]
  /\ UNCHANGED <<billed, today, dateText>>

\* Records of one type by first date, the one created last first on a tie
Before(i, j) ==
  /\ price[i].type = price[j].type
  /\ \/ price[i].from < price[j].from
     \/ price[i].from = price[j].from /\ j < i

Adjacent(i, j) == Before(i, j) /\ ~\E k \in Priced : Before(i, k) /\ Before(k, j)

\* GetCourseLevelPricingUseCase: listing the prices cuts every record that runs
\* into the next one of its type.
ListPrices ==
  /\ price' = [i \in PriceId |->
       IF \E j \in Priced : i \in Priced /\ Adjacent(i, j) /\ price[j].from <= price[i].to
       THEN [price[i] EXCEPT !.to = price[CHOOSE j \in Priced : Adjacent(i, j)].from - 1]
       ELSE price[i]]
  /\ UNCHANGED <<billed, today, dateText>>

\* A period charges a lesson of the past.
BillLesson(r, d) ==
  /\ d <= today
  /\ billed' = [billed EXCEPT ![r] = @ \union {d}]
  /\ UNCHANGED <<price, today, dateText>>

NextDay ==
  /\ today < LastDay
  /\ today' = today + 1
  /\ UNCHANGED <<price, billed, dateText>>

PriceNext ==
  \/ \E i \in PriceId, new \in PriceRequest : CreatePrice(i, new) \/ UpdatePrice(i, new)
  \/ \E i \in PriceId : DeletePrice(i)
  \/ ListPrices
  \/ \E r \in PriceRate, d \in PriceDate : BillLesson(r, d)
  \/ NextDay

PriceSpec == PriceInit /\ [][PriceNext]_priceVars

-----------------------------------------------------------------------------
\* Records of type r that are not empty and do not overlap.  Listing empties
\* one of two records with the same first date.
Disjoint(r) ==
  \A i, j \in {k \in Priced : price[k].type = r} :
    /\ price[i].from <= price[i].to
    /\ i # j => ~Touch(price[i], price[j])

\* No update of this step changes the type of a record.
TypesKept == \A i \in Priced : i \in Priced' => price'[i].type = price[i].type

\* A date that has been charged keeps the records that cover it, whatever is
\* created, changed, deleted or cut - as long as records do not overlap, which
\* the overlap check prevents for new ones, and are not given another type.
\* Where the last charged date is text, it keeps its price too, so that its bill
\* can be computed again.
BilledPriceFrozen ==
  [][\A r \in PriceRate : \A d \in billed[r] :
       Disjoint(r) /\ TypesKept =>
         /\ {i \in Priced : Covers(i, r, d)} \subseteq {i \in Priced' : Covers(i, r, d)'}
         /\ dateText => Charged(r, d)' = Charged(r, d)]_priceVars

\* Records of one type overlap only if they did before: new dates are checked
\* on creation and on update (a record with an amount of its own type; the
\* check goes by amounts).
NoNewOverlap ==
  [][\A i, j \in Priced' :
       LET Checked(k) == k \in Priced \/ price'[k].amount[price'[k].type] > 0
       IN i # j /\ price'[i].type = price'[j].type /\ TypesKept /\ Checked(i) /\ Checked(j)
          => \/ ~Touch(price'[i], price'[j])
             \/ {i, j} \subseteq Priced /\ Touch(price[i], price[j])]_priceVars
=============================================================================
