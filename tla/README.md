# DAO EDU backend: TLA+ models and proofs

The repository is the NestJS/TypeORM backend of a tutoring centre: classes,
attendance, tuition bills, VietQR payments, wages, leave, time clocks, lead
collection, reports.  State lives in PostgreSQL; the Node process keeps next to
none.  The hard part is therefore concurrency and long sequences of requests over
the tables: every HTTP request is a handler that runs a sequence of SQL statements,
some in one `READ COMMITTED` transaction, many in none, and handlers of parents,
staff, students, the bank and the time clocks interleave statement by statement.

Paths below are relative to `src/src/modules/` unless they start with `src/`.

## 1. Inventory

| Component | State it keeps | Operations | What is hard | Correct when | Module |
|---|---|---|---|---|---|
| payments | `tuition_payment_requests`, `tuition_payment_logs`, `vietqr_callback_logs` | send, reissue, claim, VietQR callback | repeated and concurrent callbacks, lock order, crash between audit row and verdict | a transfer is credited once, to an unpaid bill; bill, request, log and audit agree | `TuitionPayment` |
| billing | `payment_periods`, `student_monthly_bills`, `teacher_monthly_wages`, `bill_id` / `wage_id` of attendance and sessions | preview, create, close, reopen, delete periods; confirm, cancel, delete orders | two people on one bill, two overlapping periods | paid orders stay, a lesson is charged once, for what it was | `TuitionPayment`, `LessonBilling`, `BillCalculation` |
| older monthly bills and wages | the same tables, without a period | settle, pay again, withdraw a month; sheets and reports | nothing marks the lessons settled | months do not overlap, settled amounts stay | `MonthlyBills` |
| class sessions (`src/src/presentation/controllers/class.controller.ts`) | `class_sessions`, `student_attendances` | start, revert, mark, override, grade, complete, update, delete, regenerate | no transactions: `save` writes a stale copy back | marked rows and taught sessions stay | `SessionHandlers` |
| academics | `class_students`, ad hoc sessions, joined dates | enrol, remove, change the joined date | row locks, capacity, status derived from the roster | capacity; nobody is missing from a list | `Enrollment`, `RosterHandlers` |
| classes and timetables | `classes`, weekly schedules | create, update, check for double bookings | fields change one by one, copies in sessions | no room or teacher is booked twice | `Timetables` |
| courses, levels, prices | `courses`, `course_levels`, `course_level_pricing` | CRUD, price timeline | statements without transaction, billed dates | billed prices and prices in use stay | `Courses`, `PriceTimeline` |
| leave-requests | `leave_requests` | submit, approve, reject, withdraw | decided on what was read before | decided once | `LeaveHandlers` |
| timekeeping | raw and matched log rows | webhook, reconciliation, matching | late, repeated, reordered events | presence has a scan | `Timekeeping`, `SessionHandlers` |
| lead scans, lead CRM | scans, candidates, leads | submit, cron job, retry, promote; detector | crashes, failed calls, concurrent submissions | nothing is forgotten or copied twice | `LeadScans`, `LeadProfiles` |
| student-evaluations | evaluations, weekly reports | mark, evaluate, report | a formula of many parts | a better lesson never makes a report worse | `WeeklyReports` |
| assignments | assignments, submissions | create, publish, update, delete, submit, grade | whole-row saves of stale copies | no work is lost | `Assignments` |
| notifications | `notifications`, their log | insert, read, unread, archive, all at once | a trigger logs too | the log tells the story of a notice | `Notifications` |
| reports, dashboards | none | queries | the same thing derived in many ways | the views agree | `Reports`, `Dashboards` |
| students, teachers, accounts | `students`, `teachers`, `users` | add, update, delete; shared accounts | read, decide, write without transaction | nobody loses a login | `Accounts` |
| identity, centers, rooms, contact requests, holidays, storage, study materials, seeds, `agent-manager`, `Chamcong`, `scratch` | - | CRUD on one row, I/O, one-off programs | - | - | - |

Components meet in the tables.  Payments settles billing's orders; billing marks
attendance and sessions; sessions, roster, leave and time clock write the same
attendance rows; the price timeline asks billing for the last charged date; the
reports read everything.  What tests of this code hardly reach is listed line by
line under `hazards` in `PROJECT.json`; the properties are about those.

## 2. Plan

Done, in this order: payments with their bills and the abstract ledger; the lessons
of a class with all their writers; the services with tables of their own; the
screens that write or read the tables of several components; proofs about payments,
enrolment, lessons, the services, leads, the screens and the reports.

Worth doing next: the make-up sessions of deferred leave, which tie two classes together.

## 3. Modules

| Module | Role |
|---|---|
| `TuitionPayment`, `MCTuitionPayment` | the payment subsystem, one action per interleaving point |
| `SettlementLedger` | what it promises about money, without requests, locks or handlers |
| `TuitionPaymentProof` | proofs about payments |
| `LessonTables` | the tables of one class, with the foreign keys, unique indexes and triggers |
| `SessionHandlers`, `RosterHandlers`, `LessonBilling`, `LeaveHandlers` | the requests that write them, one module per kind |
| `Lessons`, `MCLessons` | their composition and its properties |
| `LessonsProof`, `LessonsAloneProof` | proofs about lessons: any interleaving, one request at a time |
| `PriceTimeline`, `BillCalculation`, `Enrollment`, `Timekeeping`, `LeadScans`, `LeadProfiles`, `Reports`, `Accounts` | services with tables of their own |
| `ServicesProof` | proofs about enrolment, accounts, prices, billing orders and the time clock |
| `LeadsProof` | proofs about lead scans and the profiles made of them |
| `ReportsProof` | proofs about the money reports and the weekly reports |
| `Sums`, `SumsProof` | sums over sets and folds in ascending order, and their laws |
| `MCServices` | one instance of each service |
| `MonthlyBills`, `Timetables`, `Courses`, `Dashboards`, `Assignments`, `WeeklyReports`, `Notifications` | screens over the tables of several components |
| `ScreensProof` | proofs about all of them but `WeeklyReports` |
| `MCScreens` | one instance of each |

`map` in `PROJECT.json` gives, for every definition, the file and the lines it stands
for.  Three ways to model concurrency occur, and each is what the code does:

* **Transactions with row locks** (`TuitionPayment`, `Enrollment`).  Table variables
  hold committed rows; a transaction's writes appear in the action that commits, which
  is what others see at `READ COMMITTED`.  A lock lasts to the end of the transaction,
  so who holds it is a function of where the handlers are.
* **Statements without a transaction** (`SessionHandlers`, `LeaveHandlers`,
  `LeadScans`, `Accounts`, `Courses`, `Assignments`, `Notifications`).  A request is a
  record of the copies it has read and the statement it is at; `save` writes the
  columns in which the copy differs from the row that TypeORM loads again.
* **Requests one after another** where the interest is in long sequences
  (`PriceTimeline`, `BillCalculation`, `Timekeeping`, `MonthlyBills`, `Timetables`,
  `Dashboards`, `Reports`, `WeeklyReports`, `LeadProfiles`).  The header of each
  module says so.

### Payments

A *handler* is one HTTP request being served.  `pc[h]` names the next statement;
`op`, `onBill`, `onDelivery`, `code`, `loaded` are local variables.  The tables are
`bill` and `receipt` (`student_monthly_bills`), `request`, `paymentLog` (the
`auto_reconciled` rows), `audit` (`vietqr_callback_logs.result` per delivery) and
`period`.  `Blockers(h)` is the wait-for relation: `FOR UPDATE`, `UPDATE`, the
key-share lock of a foreign key check, an uncommitted duplicate in the unique index of
`receipt_code`, the cascade of a deleted period.  `Deadlocked(S)` is a cycle of it and
`DeadlockVictim` PostgreSQL's detector.  `SendLoad` and `SendUpdate` model how TypeORM
decides which columns to write, because it decides whether a reissue overwrites
`reconciled`.  The audit row, the settlement and the rejection are three transactions;
a crash loses every handler and every uncommitted write.

Reduced: one period; one day, so that all receipt codes share a prefix, and fewer than
10000 receipts a day; amount, account, type and reference of a callback are one bit
(`Matching`); the terminal simulation is a delivery with a transfer of its own.

### Lessons

`session`, `roster`, `att`, `leave` are rows or `Absent`; `order`, `charges` and
`payroll` are what tuition and salary periods have billed.  `req[h]` is a request with
its copies.  `LessonTables` has what the database does by itself: a bill named by an
attendance row exists, an attended session is not deleted under its rows, a deleted
order unmarks its lessons.  Enrolment, removal, joined dates and ad hoc sessions are
transactions that lock the enrolment (to enrol, the rows of class, student and
enrolment in turn); the sessions and attendance they read are not locked.
Whether a slot is taken by another class is a choice (`Timetables` has the check).

### Services

* `PriceTimeline`: the price records of one level, the guards of creating, updating,
  cutting and deleting them against the last billed date.  `dateText` says whether the
  driver hands over that date as text or as a `Date`; in the second case the code's
  comparison of it with a text is false.  `LegacyPrices` are old tables that overlap.
* `BillCalculation`: a period created step by step - the loop over the sources, the
  corrections staff enter, the save - and the preview computed again.
* `Enrollment`: many classes and students; the lock of the class row, the unique
  row of student and class, the re-read after a wait, the count, the student's status.
  `overlapped` is a history variable: students of whom a removal overlapped another request.
* `Timekeeping`: scans, webhook, reconciliation and the matcher over a student's day; the
  filter and the matcher are loops over the scans in order.
* `LeadScans`: submissions, the cron job with its claim, chunks, failures, retries and
  crashes, and the CRM copy; `raced` and `gap` are history variables.
* `LeadProfiles`: the text detector; threads, chunks of threads and the merging of their
  answers, against one single call.  What a text contains is a table (`Hits`); the four
  education patterns are told apart, the other phrases only counted.
* `Reports`: the joins of the money queries over bills, items, wages, lessons.
* `Accounts`: students and teachers who share accounts, with requests that interleave.

### Screens

* `MonthlyBills`: settling a month, the bulk and the single screen, withdrawing it, the
  sheets and the histories.
* `Timetables`: creating and updating classes, the double-booking check as the code
  writes it, with text comparisons of times and dates (`textDates`), and the sessions
  planned anew.
* `Courses`: courses, levels, prices and classes with the foreign keys between them.
* `Dashboards`: one class calendar as seen by office, teacher and student.
* `Assignments`: homework, submissions, grading, `overtaken` as history variable.
* `WeeklyReports`: the study quality index, trend, strengths and the class report.
  Indexes and marks are in tenths, so 655 is 65.5; a mark has one decimal at most.
* `Notifications`: who is told what, the trigger, the batch log, `crossed` as history.

## 4. Runs

| Run | Instance | Properties |
|---|---|---|
| `one_bill` | 1 bill, 2 transfers, 3 deliveries (one transfer repeated), 2 handlers, all operations, crashes | `TypeOK`, `ReconciledImpliesPaid`, `TransferCreditedOnce`, `AuditMatchesLog`, `CallbackPaysUnpaid`, `ClaimNeverUnsettles` |
| `two_bills` | 2 bills, a transfer for each, 2 handlers, settling operations, no reissue | `PaidHasOwnReceipt`, `PaidMatchesReconciled`, `ImplementsLedger` |
| `live` | 1 bill, 1 delivery, 2 handlers, everything but crashes, fairness | `HandlersReturn`, `CallbacksDecided` |
| `lessons_alone` | 1 session, 1 student, 2 tuition and 2 salary periods, every request, one at a time | `ChargesMatchAttendance`, `LessonChargedOnce`, `PayrollMatchesSessions`, `RosterComplete`, `LockIsFinal` |
| `lessons_race` | the same class, 1 tuition period, 2 requests at a time, crashes | `MarkedRowKept`, `TaughtSessionKept`, `LeaveDecidedOnce`, `BilledLessonIsCharged` |
| `services` | a scene per service | prices: `BilledPriceFrozen`, `NoNewOverlap`; bills: `OrderExplained`; enrolment: `EnrolWithinCapacity`, `StatusFollowsRoster`; clock: `PresentHasScan`; leads: `CompletedIsAnalysed`; profiles: `ProfilesFollowComments`; reports: `MoneyViewsAgree`; accounts: `LoginKept` |
| `screens` | a scene per module | months: `MonthsDoNotOverlap`, `SettledAmountKept`; timetables: `NoDoubleBooking`, `SessionsFollowClass`; courses: `UsedLevelKeepsPrices`; dashboards: `ViewsAgree`, `PastViewsKept`; tasks: `WorkKept`; weeks: `BetterLessonHelps`; notices: `LogTellsNotices` |
| `paid_deleted` | violation | a bill paid after the deletion read it is deleted |
| `closed_period` | violation | a callback settles a bill of a closed period |
| `collected_twice` | violation | two concurrent confirmations are both committed |
| `leave_row` | violation | removing a student deletes the attendance row of an approved leave |
| `charged_twice` | violation | two overlapping periods created together charge a lesson twice |

A **scene** of `services` or `screens` is a choice of the initial state: one module
runs, the tables of the others stay as they begin.  They share no row there, so
interleaving them would multiply the states and show nothing more; modules that do
share rows are composed in `Lessons` and `TuitionPayment`.

**Bounds** are in the `.cfg` files and the MC modules.  Two handlers are enough for a
conflict between any two requests; a handler returns to idle and is used again, so
sequences of any length are covered, and counters are bounded by the finite ids,
deliveries, scans or submissions.  `Lessons` uses one session and one student because
each handler works row by row and its guards look at one session and its rows; the modules
take more, and `regenerate` still makes and drops the session.  `LessonChargedOnce`
needs two periods of each kind, `EnrolWithinCapacity` two students for one seat,
`StatusFollowsRoster` two classes, `PresentHasScan` three lessons of which two adjoin,
`LeadScans` two rows of one post, `OrderExplained` three lessons of two rates,
`NoDoubleBooking` two classes, `MoneyViewsAgree` two centers and months,
`BetterLessonHelps` two lessons of the week and one of the week before.  Values are chosen at the edges
of the code's comparisons: a scan four and more minutes after another, revenue one
above a commission level, an index at a rounding step.

Handler symmetry is used in safety runs only.  `WorkKept` and `LogTellsNotices` are
properties of requests that do not overtake one another, and their scenes end with
the first that does; what goes wrong then is in section 7.

**Fairness** (`live`): strong fairness of a handler's next statement - a promise
chain runs on as long as its statement can, and PostgreSQL queues lock waiters, so a
waiter that finds the row free again and again gets it - and weak fairness of the
deadlock detector.  Nobody is obliged to send requests.  Crashes are left out of
`live`: after one, the code does nothing about a delivery left in `received`.  The
other modules state no liveness: their requests take a fixed number of statements and
wait for nothing but row locks that are taken in one order.

## 5. Proofs

### Payments

For any sets of bills (finite), transfers, deliveries and handlers, from
`PaymentConstants`, the types of the constants.

* `Invariance`: `Spec => []IInv`.  The inductive invariant adds to the safety
  properties what the code relies on silently: where a handler is tells what it works
  on (`LocalsAgree`), no two handlers process one delivery (`DeliveriesApart`), row
  locks exclude (`RequestLockExclusive`, `BillLockExclusive`), and what a handler
  checked on rows it has locked stays true until it commits (`LockedRowsStable`) -
  although the callback locks only the request, never the bill: nobody can change the
  bill of a request that is locked, because every writer of the bill also writes the
  request before it commits.  `LockAcquired` is the key lemma: a lock is acquired only
  by a handler that waited for it and was not blocked.
* `TypeCorrect`, `ReconciledPaid`, `CreditedOnce`, `AuditTrail` follow from it;
  `CallbackSafe` and `ClaimSafe` are the action properties.
* `Refinement`: `Spec => ImplementsLedger`.
* `OwnReceipt`: the code a handler has written is in no other row
  and in no other uncommitted write (`WrittenCodeFree`), and a handler that settles
  without a new code has seen one that cannot disappear unless the bill does
  (`SeenReceiptStays`).
* `InStep`: without `send`, `PaidMatchesReconciled`.
* `GreatestValue` and `NextReceiptFresh`: the next receipt number exists and is
  greater than every receipt in the table.

### Enrolment

`ServicesProof`, for any classes, finite set of students, handlers and sizes, from
`EnrolConstants`.

* `EnrolTyped`: types, and what a request does fits the statement it is at
  (`EnrolShape`).
* `EnrolCapacityKept`: `EnrolWithinCapacity`.  The count of a class and the insertion are two
  statements; between them the invariant `SeatFree` says that there is still a seat.
  It holds because at most one handler holds a class row (`ClassRowExclusive`), every
  enrolment takes that row first, and `TakeSeat` changes one class only.  Removals
  take no such lock and need none: they only make room.
* `EnrolStatusFollows`: `StatusFollowsRoster`.  `Steady` says the property for students
  without a request, `Alone` that a request of a student who is not in `overlapped` is
  the only one or an enrolment among enrolments, `Sound` that what a removal has
  counted is still so at its commit.

### Lessons

For any sessions, students, periods, handlers, dates and sets of operations in use, from
`LessonConstants`, `RegenerateConstants`, `RosterConstants` (types, dates) and
`NoRowConstants` (`NULL` is no row, no bill and no payroll).

* `LessonsInvariant`: `Spec => []LessonInv`, checked by TLC first; `LessonsTyped`
  follows.  `RequestFits` ties what a request remembers to the statement it is at.
  `RowsCharged` says that a row with a bill is charged by it, and `CopyCharged` the
  same of the stale copies that requests are about to save - but only as long as the
  student has an order in that period: after an order is deleted, the copy still names
  it, and it is the foreign key (`BillKnown`) that refuses the save.  `OwnPeriod`: a
  period being created is nobody else's; `LeaveLockHeld`: the leave request a reviewer
  has locked stays pending, and no other reviewer holds it.
* `BilledCharged`: `BilledLessonIsCharged`, from the invariant.
* `MarkedKept`, `TaughtKept`, `DecidedOnce`: the action properties `MarkedRowKept`,
  `TaughtSessionKept` and `LeaveDecidedOnce`.

The proof has two layers.  All requests but those of billing and the locking of a leave
request do a *gentle step*: each table changes only as its constraints allow
(`SessionStep`, `AttendanceStep`, `LeaveStep`), the bills stay, and the handler moves to
a statement that fits.  `GentleKeeps` says once that this preserves the invariant and has
the action properties, so a request needs a proof about what it writes and no more;
the other requests have lemmas of their own (`SaveBillsKeeps`, `DeleteBillsKeeps`,
`SalaryKeeps`, `LockKeeps`, `FindKeeps`, `CrashKeeps`).

### Lessons, one request at a time

`LessonsAloneProof`: the same assumptions, and one handler (`Handler = {h}`), so that a
request finishes or dies before the next one begins.  With two handlers the properties
do not hold in general: run `charged_twice` charges a lesson twice.

* `AloneInvariant`: `Spec => []AloneInv(h)`, checked by TLC first.  It adds to `LessonInv`
  what a request remembers (`Remembers`): the sessions it copied are as it copied them,
  and unlocked where its guard asked for that (`CopiesCurrent`); so is the attendance row
  it will write back (`RowCurrent`); the session it reverts or marks has no charged row
  (`LessonUnbilled`); what it is about to charge or to pay is neither charged nor paid
  (`SourcesCurrent`).  `AttendanceHeld` is the foreign key of a row to its session;
  `FreshWages` says that a period without a payroll has paid nothing.
* `ChargesMatch`, `PayrollMatches`, `ChargedOnce`: `ChargesMatchAttendance`,
  `PayrollMatchesSessions`, `LessonChargedOnce`.  `LocksFinal`: `LockIsFinal`.  All four
  hold with crashes between any two statements.
* `RosterAlwaysComplete`: `RosterComplete`, without crashes: a request that dies after it
  has deleted the rows of a session and before it deletes the session leaves students off
  the list.  `RosterInv` therefore says exactly when rows may be missing (`Pending`: between
  those two statements, in the sessions that are going) and why the sessions go then for
  certain: what the guard saw of them is still so (`Disposing`, `Regenerating`), and what
  the request has planned to write is what the roster asks for (`RosterCurrent`).

Again in layers: a *quiet step* leaves bills, wages and locks alone (`QuietKeeps`), a step
that keeps rows and adds no session keeps the roster complete (`KeptRoster`), and only the
requests of billing and those that move rows have lemmas of their own.

### Services

`ServicesProof` and `LeadsProof`, for any values of the constants: any students, teachers
and requests (`AccountConstants`: finitely many students, and `NULL` is no row); any price
records and dates (`LegacyTyped`: old rows are rows); any lessons, owners, prices, revenues
and adjustments (`BillConstants`: finitely many lessons, amounts are integers); any lessons
and scan times of a day (`ClockConstants`: times are numbers, a lesson ends after it
starts); any scans, comments and submissions; any authors, texts, hits and verdicts
(`ProfileConstants`: verdicts are as the schema of the classifier allows).  The invariants
have been checked by TLC on the instances of `services`.

* `CompletedAnalysed`: `CompletedIsAnalysed`.  `LeadInv` says what is so while the worker
  is between two statements: a row it has picked or marked is as it read it, unless a
  submission overlapped (`ItemsCurrent`); of a completed row the demands copied so far are
  exactly those not still to do (`DemandsCurrent`); and a row has been asked about at most
  once more than it has failed (`AttemptsCounted`), which needs that the count about to be
  written covers what was asked.
* `LoginsKept`: `LoginKept`.  `PlansHold` says that what a request has planned on its
  reads is still right unless it is stale: an account to be deleted is used by nobody but
  the student who leaves it, and an account to be linked exists.  `LinkedSoon` is the
  property while requests are under way: a student without account is about to get one.
* `BilledPricesFrozen`, `NoOverlapIsNew`: `BilledPriceFrozen`, `NoNewOverlap`.  The only
  invariant needed is that billed dates are of the past (`BilledPast`); the work is in the
  steps, where a record that is cut, moved or deleted lies after the last billed date or
  covers none.
* `OrdersExplained`: `OrderExplained`.  `OrderInv`: the lines of an order hold the lessons
  the loop has passed, each once (`Holds`), a line with lessons is at the price and of the
  class of each (`LinesPriced`), the total is what the lessons cost and what the lines
  cost, and once a salary order is settled it is so up to rounding (`Rounded`).  Amounts
  are sums over line numbers: adding a lesson to a line changes one term (`TotalChange`),
  a new line adds one (`TotalAppend`), and nine tenths of every term, each rounded, are
  off by at most half a dong each (`NetTotals`).  A commission order is exact because the
  base salary is a multiple of ten (`NetCommission`).
* `PresenceScanned`: `PresentHasScan`.  `ClockInv`: a mark the clock has set is explained
  by a row of the log that names the lesson or one it follows within the hour; closing a
  lesson or marking it by hand never adds such a mark.  In one run of the matcher the
  invariant is that every lesson present so far is near a scan (`Near`): a check-in is, and
  what it carries over to follows the lesson it is carried from.  That a second scan changes
  nothing is about the filter: what it keeps is the one set of scans in which each is five
  minutes or more after those kept before (`Thinned`, `ThinnedOnce`), and with the second
  scan that set is the same.
* `ProfilesFollow`: `ProfilesFollowComments`.  `CommentsTyped`: a comment answers an earlier
  one.  Hence every comment is in the thread of one comment of the post: the least comment
  in no thread would have a parent in one, and two threads that share a comment share the
  parent of the least one.  So the chunks hold every comment once (`Pieces`).  The profiles
  of a set of comments are told by the set alone (`Tells`, `Best`): the best class, score
  and level of the author's comments, with each as evidence once; joining the profiles of
  two sets without a common comment tells their union, whatever the order.  The detector's
  part is arithmetic: one promotion alone scores more than makes an advertiser.

### Reports

`ReportsProof`, for any students, classes, centers, months, prices, adjustments and wages
(`ReportConstants`: finite sets, months and amounts are integers, `NULL` is none of them,
old wages are rows); any lessons of two weeks, evaluations, marks and classmates
(`WeekConstants`: finitely many lessons, and marks and criteria as the requests allow).

* `MoneyViewsTold`: `MoneyViewsAgree`.  The reports are queries, so the property is about
  one state; but it needs what every step has kept of the bills.  `ReportInv`: the items of
  a bill add up to its total, and per class to the lessons that name the bill, but for the
  adjustment, which is an item of the first item's class (`BillAdds`).  That is the step of
  `BillStudent`, where items are made by class and rate and put into some order
  (`ItemsListed`, `ItemsAdjusted`); the other steps leave bills and their lessons alone, as
  a new lesson names no bill and a new price reaches unbilled lessons only.  From there each
  view is a sum by some key of its rows (`Keyed`, `SumKeys`) - month, center, period,
  student, class and rate, role, teacher - so two views agree when every row has one key in
  each.  Debts do so only for students in exactly one Active class, which the property says;
  a dashboard that shows six months only if the bills are in these; the part of a payment
  that goes to an item is rounded, and exact because bills are paid in full or not at all.
* `BetterHelps`: `BetterLessonHelps`.  The reports are functions of what they read
  (`InputsTyped` is all that is needed of the states), so this compares two readings
  (`Better`).  The points of each lesson grow with it (`PointsGrow`), so do their sums, and
  with n lessons the base is at most 800 n and the index at most 1000.  Progress compares
  with a week before that has got no better (`ProgressGrows`).  Rounded quotients grow with
  what is divided, and stay in their bounds (`QuotientGrows`, `QuotientWithin`); students
  of a level or a higher one are counted by level (`LevelsGrow`).

### Screens

`ScreensProof`, for any values of the constants.  Besides `NULL` being no row
(`TimetableConstants`, `CourseConstants`, `TaskConstants`, `NoticeConstants`), assumed are
finite sets of people and requests where they are counted, and calendars that are
calendars: months have days, later days are in later months, there is a last day
(`MonthConstants`, `DashConstants`).  `MonthConstants` also takes old monthly rows to be
one per payee and month, without dates, as the unique keys had it that the migration
`1781330000000-AddPaymentPeriodsAndRelations.ts` drops, and rates to be numbers.

* `NothingBookedTwice`, `PlanFollowsClass`: `NoDoubleBooking`, `SessionsFollowClass`,
  which together with the types are inductive.  An update that names no timetable, teacher
  or date is not checked, and must therefore leave alone what the property reads.
* `UsedLevelsKeepPrices`: `UsedLevelKeepsPrices`.  A request that deletes a level had found
  it without a class when it began (`DeskHolds`), whatever the requests at the other desks did.
* `MonthsSettledOnce`: `MonthsDoNotOverlap`.  `MonthsInOrder`: the dates of a row end in
  its month, a payee has one row of a month, and a later month starts after the dates of
  every earlier one, whoever was settled then.  That a month has a last day, and a set of
  dates a greatest, is `LeastOne` and `GreatestOne`.
* `SettledAmountsKept`: `SettledAmountKept`.  `SlipInv`: a row whose classes had one price
  has the items and the total of some table of rates.  Counting its lessons again reads the
  rate kept in the item of the class, which is the rate the class then had
  (`CountedAgain`); the sums by lesson, by class and by item are one number (`ByLecture`,
  `ItemsSum`), a class without an item being one where nobody was there.
* `ViewsOfPastStay`: `PastViewsKept`.  What a step may do to one enrolment while its
  joined date stays (`EnrolmentStays`): join today, leave today, nothing.
* `ViewsTellTheSame`: `ViewsAgree`.  A count over meetings and students is counted by
  student, by class and by month (`CountParts`, `CountRows`, `CountColumns`); for homework
  the invariant has that what is handed in is of a member.
* `LogTold`: `LogTellsNotices`.  `LogTells` counts the entries that batch requests are
  still to repeat as repeated, and `Fresh` says that what they found is still so; an event
  between finding and logging would break it, and is what sets `crossed`.
* `SubmissionsKept`: `WorkKept`.  `Decided`: what a request decided on its copies is still
  right unless another has saved - the whole-row save of a graded submission writes its
  grade back because the copy has it.

### Sums

`Sum(S, f)` is the community modules' `MapThenSumSet`, which folds over a set in an order
`CHOOSE` gives; `InOrder` takes the numbers of a set in ascending order, as loops over
sorted rows do.  No induction theorem can be instantiated here, so `SumsProof` proves what
it needs from the least number principle: the fold exists for every finite set
(`StepsExist`), two agree where both are defined (`StepsAgree`), hence `SumPick`; and
`PartsInduction` is induction over the subsets of a finite set for a set of subsets rather
than a predicate.  From these follow the laws: taking one element out, changing one value,
adding functions, joining disjoint sets, and summing by parts, rows and columns, by a key
of the elements (`SumKeys`), under other names (`SumRenamed`), and over a larger set whose
other elements count nothing (`SumWithin`).  The same for loops and recursion: the steps of
a fold in order exist (`AscentExists`), what its first step has and every step keeps, its
end has (`AscentInduction`), and a recursive function over an interval that looks only at
smaller (or greater) numbers is what its equation says (`Recursion`), with induction along
it (`Upward`, `Downward`).

### Only model-checked

* Liveness (`HandlersReturn`, `CallbacksDecided`): the provers do not reason about fairness
  and `ENABLED` here.
* The five violations, which are counterexamples.

Every invariant and action property of the passing runs is a theorem.  What the theorems
do not cover is what the models leave out (section 6), and what the properties themselves
exclude: crashes for `RosterComplete`, several handlers for `LessonsAloneProof`, reissued
requests for `PaidMatchesReconciled`, requests that overtook one another for the history
variables.

## 6. Not modelled

* Identity (password check, stateless tokens), centers, rooms, contact requests,
  holidays: CRUD on single rows.  Storage and study materials: files.
* Calls to Gemini, the scraper, VietQR tokens, the terminals' configuration: external.
  Where an answer matters it is a choice (`Verdict`, `Matching`, a failed call).
* Make-up sessions of deferred leave, the slot check of a single session, the parents'
  chat, the CRM's own editing pages, counts of new students and waiting lists,
  exports, paging, sorting, wording.
* Salary orders are confirmed and cancelled by the same code as tuition orders, without
  a payment request; only their creation and deletion are modelled.
* Migrations, seeds, scripts, `agent-manager`, `Chamcong`, `scratch`: run once or not
  part of the server.

## 7. What the models found

The five violations above contradict a test or comment of the repository and are
listed under `findings`.  What follows contradicts none, but bounds what could be
stated; the properties say so in their comments.

* A reissued request that had read before a callback settled it writes `pending` over
  `reconciled`; hence `PaidMatchesReconciled` without reissue.
* Two removals of one student each count the other's class and leave a student who
  studies nowhere with status Studying (`StatusFollowsRoster`).
* If the driver returns dates as objects, every comparison with a date text is false:
  prices of billed dates may then change, and classes with dates are not checked for
  double bookings.  A time sent without seconds compares as less than the stored one
  with seconds, so lessons that follow each other directly count as overlapping.
  Assistants are not checked, nor is a class reopened by its status alone.
* Monthly bills start after the latest date settled and mark no lesson: settled out of
  order, or after one is withdrawn, they overlap, and a later payment period bills
  their lessons again.  A month in which the price changed is counted at its last
  item's rate, and paid again, at another.
* Updating a course deletes its levels and inserts them again without their prices; with
  a class on one of them it fails after the course row is saved.  A class created while a
  level is being deleted keeps its level but loses the prices.
* Lessons to come are red in a student's calendar although the comment at
  `src/src/presentation/controllers/dashboard.controller.ts:450` says blue.  The reports
  count a lesson of today that is still `Scheduled`, with its rows as absent.  A lesson
  completed but not locked is finished for its teacher and open for the office.
  Enrolling again sets the joined date and hides earlier lessons.
* The trigger of `notifications` logs every change, batch requests log theirs a second
  time, and the adapter compares a row with itself, so its own log of a save is never
  written.  A save that crosses an archiving brings the notice back.
* The first week of a year is always compared with week 52.
