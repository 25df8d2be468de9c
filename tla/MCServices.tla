----------------------------- MODULE MCServices -----------------------------
(***************************************************************************)
(* The services that keep tables of their own.  A scene is one of them; it *)
(* runs from its initial states while the tables of the others stay as     *)
(* they are.  Model values and instances for TLC.                          *)
(***************************************************************************)
EXTENDS PriceTimeline, BillCalculation, Enrollment, Timekeeping, LeadScans,
        LeadProfiles, Reports, Accounts, TLC

CONSTANTS Scene, h1, h2, c1, c2, m1, m2

VARIABLE scene

vars == <<scene, priceVars, billVars, enrolVars, clockVars, leadVars, comments,
          reportVars, accountVars>>

\* Prices: no record, or two of an old table that overlap
OldPrice(type, from, to) ==
  [type |-> type, from |-> from, to |-> to,
   amount |-> [r \in PriceRate |-> IF r = type THEN 1 ELSE 0]]

NoPrices == [i \in PriceId |-> NoPrice]
OldPrices ==
  {NoPrices} \union
  {[NoPrices EXCEPT ![1] = OldPrice(r, 1, 2), ![2] = OldPrice(r, 2, 2)] : r \in PriceRate}

\* Amounts staff set: invalid, or not the calculated one
Amounts == {-1, 12}

\* Three lessons, the first two within an hour
LessonStart == <<600, 700, 900>>
LessonEnd == <<690, 790, 990>>

\* Comments
NoHits == [demand |-> 0, intent |-> 0, promotion |-> 0, competitor |-> 0, recommends |-> 0,
           phones |-> 0, links |-> 0, education |-> {}, asks |-> FALSE]
LeadHits ==
  [t \in {"ask", "join", "advert", "center", "praise"} |->
     CASE t = "ask" -> [NoHits EXCEPT !.demand = 1, !.intent = 1, !.education = {1, 2}, !.asks = TRUE]
       [] t = "join" -> [NoHits EXCEPT !.intent = 1]
       [] t = "advert" -> [NoHits EXCEPT !.promotion = 1, !.education = {3}]
       [] t = "center" -> [NoHits EXCEPT !.competitor = 1, !.promotion = 1, !.phones = 1, !.links = 1]
       [] OTHER -> [NoHits EXCEPT !.recommends = 1, !.education = {1}]]
Texts == DOMAIN LeadHits
LeadVerdict ==
  [t \in Texts |->
     CASE t = "ask" -> [class |-> "POTENTIAL_PARENT", score |-> 80, level |-> "HOT"]
       [] t = "join" -> [class |-> "POTENTIAL_PARENT", score |-> 40, level |-> "COLD"]
       [] t = "advert" -> [class |-> "TEACHER_AD", score |-> 5, level |-> "NONE"]
       [] t = "center" -> [class |-> "COMPETITOR_SALE", score |-> 0, level |-> "NONE"]
       [] OTHER -> [class |-> "RECOMMENDATION", score |-> 5, level |-> "NONE"]]

\* Reports: two centers; the price of one class changes
CenterOfClass == [c \in Group |-> IF c = "k1" THEN "x" ELSE "y"]
LessonFee == [c \in Group |-> IF c = "k1" THEN {10, 20} ELSE {10}]
Corrections == {0, -4}
SomeWages ==
  {<<>>,
   <<[teacher |-> "t1", type |-> "Teacher", month |-> 1, paid |-> TRUE,
      items |-> <<[class |-> "k1", role |-> "assistant", amount |-> 5],
                  [class |-> None, role |-> None, amount |-> 9]>>],
     [teacher |-> "t2", type |-> "Teaching Assistant", month |-> 2, paid |-> FALSE,
      items |-> <<[class |-> "k2", role |-> None, amount |-> 3]>>]>>}

\* Bills: the lessons while another scene runs
OneTable ==
  LET l == [owner |-> "o1", class |-> "c1", rate |-> 5, role |-> "student", present |-> TRUE]
  IN [s \in SourceId |-> l]

Init ==
  /\ scene \in Scene
  /\ PriceInit /\ (scene = "prices" => price = NoPrices \/ dateText)
  /\ (scene # "prices" => price = NoPrices /\ dateText)
  /\ EnrolInit /\ (scene # "enrolment" => \A c \in ClassRow : capacity[c] = Unlimited)
  /\ ClockInit /\ LeadInit /\ ProfileInit /\ AccountInit
  /\ ReportInit /\ (scene # "reports" => wage = <<>> /\ \A c \in Group : fee[c] = 10)
  /\ (scene = "reports" => wage # <<>>)
  /\ \/ scene = "bills"
     \/ scene # "bills" /\ kind = "tuition" /\ source = OneTable
  /\ BillInit /\ source[1].owner = "o1" /\ source[1].class = "c1"

PriceScene ==
  /\ scene = "prices" /\ PriceNext
  /\ UNCHANGED <<scene, billVars, enrolVars, clockVars, leadVars, comments, reportVars,
                 accountVars>>

BillScene ==
  /\ scene = "bills" /\ BillNext
  /\ UNCHANGED <<scene, priceVars, enrolVars, clockVars, leadVars, comments, reportVars,
                 accountVars>>

EnrolScene ==
  /\ scene = "enrolment" /\ EnrolNext
  /\ UNCHANGED <<scene, priceVars, billVars, clockVars, leadVars, comments, reportVars,
                 accountVars>>

ClockScene ==
  /\ scene = "clock" /\ ClockNext
  /\ UNCHANGED <<scene, priceVars, billVars, enrolVars, leadVars, comments, reportVars,
                 accountVars>>

LeadScene ==
  /\ scene = "leads" /\ LeadNext
  /\ UNCHANGED <<scene, priceVars, billVars, enrolVars, clockVars, comments, reportVars,
                 accountVars>>

ProfileScene ==
  /\ scene = "profiles" /\ ProfileNext
  /\ UNCHANGED <<scene, priceVars, billVars, enrolVars, clockVars, leadVars, reportVars,
                 accountVars>>

ReportScene ==
  /\ scene = "reports" /\ ReportNext
  /\ UNCHANGED <<scene, priceVars, billVars, enrolVars, clockVars, leadVars,
                 comments, accountVars>>

AccountScene ==
  /\ scene = "accounts" /\ AccountNext
  /\ UNCHANGED <<scene, priceVars, billVars, enrolVars, clockVars, leadVars,
                 comments, reportVars>>

Next ==
  \/ PriceScene \/ BillScene \/ EnrolScene \/ ClockScene \/ LeadScene \/ ProfileScene
  \/ ReportScene \/ AccountScene

Spec == Init /\ [][Next]_vars

ServiceSymmetry ==
  Permutations({h1, h2}) \union Permutations({c1, c2}) \union Permutations({m1, m2})
=============================================================================
