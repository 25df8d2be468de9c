--------------------------- MODULE TuitionPayment ---------------------------
(***************************************************************************)
(* Bills, payment requests and VietQR callbacks under concurrency.         *)
(*                                                                         *)
(* A handler is one HTTP request being served.  Every use case runs in one *)
(* PostgreSQL transaction at READ COMMITTED; here each statement that can  *)
(* interleave with another transaction is one action.  The table variables *)
(* hold COMMITTED rows: a handler's writes become visible in the action    *)
(* that commits.  A row lock is not stored, it follows from the handler's  *)
(* program counter: a lock lasts from the statement that takes it to the   *)
(* end of the transaction.                                                 *)
(***************************************************************************)
EXTENDS Naturals, FiniteSets

CONSTANTS
  Bill,          \* student_monthly_bills rows of one tuition period
  Transfer,      \* bank transfers (external_transaction_id)
  TransferBill,  \* the bill whose content / orderId a transfer carries
  Matching,      \* transfers whose account, amount and type match the request
  Delivery,      \* callback deliveries; the bank may deliver a transfer again
  TransferOf,    \* the transfer a delivery reports
  Handler,       \* requests served concurrently
  Operations,    \* the endpoints in use
  NoBill, NoDelivery

ASSUME PaymentConstants ==
  /\ IsFiniteSet(Bill)
  /\ TransferBill \in [Transfer -> Bill]
  /\ Matching \subseteq Transfer
  /\ TransferOf \in [Delivery -> Transfer]
  /\ NoBill \notin Bill
  /\ NoDelivery \notin Delivery

VARIABLES
  bill,          \* status per bill; "none" once the row is deleted
  receipt,       \* receipt_code sequence number of the day; 0 is NULL
  request,       \* tuition_payment_requests.status; "none" without a row
  paymentLog,    \* transfers with an 'auto_reconciled' payment log
  audit,         \* vietqr_callback_logs.result per delivery
  period,        \* payment_periods.status; "none" once deleted
  pc,            \* next statement of each handler
  op,            \* the use case a handler runs
  onBill,        \* the bill it works on
  onDelivery,    \* the callback delivery it works on
  code,          \* receipt sequence number it will write; 0 for none
  loaded         \* what an earlier SELECT returned and the handler relies on

tables == <<bill, receipt, request, paymentLog, audit, period>>
locals == <<pc, op, onBill, onDelivery, code, loaded>>
vars == <<bill, receipt, request, paymentLog, audit, period,
          pc, op, onBill, onDelivery, code, loaded>>

Op == {"none", "callback", "confirm", "cancel", "delete", "send", "claim",
       "deletePeriod"}

BillStatus == {"none", "Unpaid", "Paid"}
RequestStatus == {"none", "pending", "processing", "reconciled"}
AuditResult == {"none", "received", "success", "duplicate", "rejected"}
PeriodStatus == {"none", "Active", "Closed"}

\* A request status a save is compared with, or whether an order had a
\* receipt code when it was read.
Loaded == RequestStatus \union {"unreceipted", "receipted"}

CallbackPc == {"verifyBearer", "findDuplicate", "lockRequest", "checkBill",
               "callbackReceipt", "callbackUpdate", "callbackCommit",
               "rejectAudit"}

Pc == CallbackPc \union
  {"idle",
   "findOrder", "findPeriod", "orderReceipt", "updateBill", "updateRequest",
   "deleteBill", "cascadeRequest", "orderGone",
   "sendBill", "sendRequest", "sendLoad", "sendUpdate", "sendInsert",
   "claimRequest", "claimBill", "claimSave",
   "countPaid", "deletePeriodRows"}

TypeOK ==
  /\ bill \in [Bill -> BillStatus]
  /\ receipt \in [Bill -> Nat]
  /\ request \in [Bill -> RequestStatus]
  /\ paymentLog \subseteq Transfer
  /\ audit \in [Delivery -> AuditResult]
  /\ period \in PeriodStatus
  /\ pc \in [Handler -> Pc]
  /\ op \in [Handler -> Op]
  /\ onBill \in [Handler -> Bill \union {NoBill}]
  /\ onDelivery \in [Handler -> Delivery \union {NoDelivery}]
  /\ code \in [Handler -> Nat]
  /\ loaded \in [Handler -> Loaded]

Init ==
  /\ bill = [b \in Bill |-> "Unpaid"]
  /\ receipt = [b \in Bill |-> 0]
  /\ request \in [Bill -> {"none", "pending"}]
  /\ paymentLog = {}
  /\ audit = [d \in Delivery |-> "none"]
  /\ period = "Active"
  /\ pc = [h \in Handler |-> "idle"]
  /\ op = [h \in Handler |-> "none"]
  /\ onBill = [h \in Handler |-> NoBill]
  /\ onDelivery = [h \in Handler |-> NoDelivery]
  /\ code = [h \in Handler |-> 0]
  /\ loaded = [h \in Handler |-> "none"]

-----------------------------------------------------------------------------
(* Row locks, read off the program counters.                               *)

\* Mutants: findRequestForTransaction, or the claim, reading without a lock.
HoldsRequest_CallbackUnlocked(h) == pc[h] \in {"claimBill", "claimSave"}

HoldsRequest_ClaimUnlocked(h) ==
  pc[h] \in {"checkBill", "callbackReceipt", "callbackUpdate",
             "callbackCommit"}

HoldsRequest(h) ==
  pc[h] \in {"checkBill", "callbackReceipt", "callbackUpdate",
             "callbackCommit", "claimBill", "claimSave"}

HoldsBill(h) ==
  pc[h] \in {"callbackCommit", "updateRequest", "cascadeRequest"}

\* A deletion, and an update that changes the UNIQUE receipt_code, also
\* conflict with the key-share lock a foreign key check takes on the bill.
HoldsBillKey(h) ==
  /\ HoldsBill(h)
  /\ code[h] # 0 \/ op[h] = "delete"

AwaitsRequest(h) ==
  pc[h] \in {"lockRequest", "claimRequest", "updateRequest", "cascadeRequest",
             "sendUpdate"}

AwaitsBill(h) == pc[h] \in {"callbackUpdate", "updateBill", "deleteBill"}

AwaitsBillKey(h) == pc[h] \in {"claimSave", "sendInsert"}

\* The transactions whose end handler h must wait for before its statement.
Blockers(h) ==
  {g \in Handler \ {h} :
     \/ AwaitsRequest(h) /\ onBill[g] = onBill[h] /\ HoldsRequest(g)
     \/ AwaitsBill(h) /\ onBill[g] = onBill[h] /\ HoldsBill(g)
     \/ AwaitsBillKey(h) /\ onBill[g] = onBill[h] /\ HoldsBillKey(g)
     \* an uncommitted entry with the same code in the unique index
     \/ AwaitsBill(h) /\ code[h] # 0 /\ HoldsBill(g) /\ code[g] = code[h]
     \* the cascade of a period deletion locks every row
     \/ pc[h] = "deletePeriodRows" /\ (HoldsRequest(g) \/ HoldsBill(g))}

Unblocked(h) == Blockers(h) = {}

-----------------------------------------------------------------------------
(* Control of a handler.                                                   *)

At(h, label) == pc[h] = label

GoTo(h, label) == pc' = [pc EXCEPT ![h] = label]

\* The handler's transaction ends and its response is sent.
Return(h) ==
  /\ pc' = [pc EXCEPT ![h] = "idle"]
  /\ op' = [op EXCEPT ![h] = "none"]
  /\ onBill' = [onBill EXCEPT ![h] = NoBill]
  /\ onDelivery' = [onDelivery EXCEPT ![h] = NoDelivery]
  /\ code' = [code EXCEPT ![h] = 0]
  /\ loaded' = [loaded EXCEPT ![h] = "none"]

\* Mutant: a callback without its catch block.
Fail_NoCatch(h) == UNCHANGED tables /\ Return(h)

\* An error rolls the transaction back.  A callback's catch block goes on
\* to write the rejection, any other use case answers with the error.
Fail(h) ==
  /\ UNCHANGED tables
  /\ IF op[h] = "callback"
       THEN /\ GoTo(h, "rejectAudit")
            /\ code' = [code EXCEPT ![h] = 0]
            /\ UNCHANGED <<op, onBill, onDelivery, loaded>>
       ELSE Return(h)

Continue(h, label) ==
  /\ GoTo(h, label)
  /\ UNCHANGED tables
  /\ UNCHANGED <<op, onBill, onDelivery, code, loaded>>

Start(h, use, b, label) ==
  /\ use \in Operations
  /\ At(h, "idle")
  /\ GoTo(h, label)
  /\ op' = [op EXCEPT ![h] = use]
  /\ onBill' = [onBill EXCEPT ![h] = b]
  /\ UNCHANGED <<code, loaded>>

\* PT-<day>-<seq>: the next number after the greatest one in the table.
NextReceipt ==
  CHOOSE n \in {receipt[b] + 1 : b \in Bill} :
    \A b \in Bill : receipt[b] < n

\* Mutant: no unique index.
ReceiptTaken_NoIndex(h) == FALSE

\* UNIQUE (receipt_code)
ReceiptTaken(h) == \E b \in Bill \ {onBill[h]} : receipt[b] = code[h]

CreateReceiptCode(h, label) ==
  /\ code' = [code EXCEPT ![h] = NextReceipt]
  /\ GoTo(h, label)
  /\ UNCHANGED tables
  /\ UNCHANGED <<op, onBill, onDelivery, loaded>>

\* The UPDATE of the bill row: it takes the row lock, or fails on the
\* unique index; its values are published by the commit.
WriteBill(h, next) ==
  /\ Unblocked(h)
  /\ IF code[h] # 0 /\ ReceiptTaken(h) THEN Fail(h) ELSE Continue(h, next)

\* receipt_code after h commits
WrittenReceipt(h) ==
  IF code[h] = 0 THEN receipt
                 ELSE [receipt EXCEPT ![onBill[h]] = code[h]]

-----------------------------------------------------------------------------
(* ProcessVietQrTransactionUseCase                                         *)

ReceiveCallback(h, d) ==
  /\ audit[d] = "none"
  /\ Start(h, "callback", TransferBill[TransferOf[d]], "verifyBearer")
  /\ onDelivery' = [onDelivery EXCEPT ![h] = d]
  /\ audit' = [audit EXCEPT ![d] = "received"]
  /\ UNCHANGED <<bill, receipt, request, paymentLog, period>>

\* Missing or expired Bearer token, or a malformed body.
RefuseCallback(h) == At(h, "verifyBearer") /\ Continue(h, "rejectAudit")

AcceptCallback(h) == At(h, "verifyBearer") /\ Continue(h, "findDuplicate")

\* Mutant: duplicates looked up among the processed audit rows.
Logged_ByAudit(t) ==
  \E d \in Delivery :
    TransferOf[d] = t /\ audit[d] \in {"success", "duplicate", "rejected"}

\* findPaymentLogByTransactionId
Logged(t) == t \in paymentLog

FindDuplicate(h) ==
  /\ At(h, "findDuplicate")
  /\ IF Logged(TransferOf[onDelivery[h]])
       THEN /\ audit' = [audit EXCEPT ![onDelivery[h]] = "duplicate"]
            /\ Return(h)
            /\ UNCHANGED <<bill, receipt, request, paymentLog, period>>
       ELSE Continue(h, "lockRequest")

\* findRequestForTransaction (SELECT ... FOR UPDATE) and matchesTransaction
LockRequest(h) ==
  /\ At(h, "lockRequest")
  /\ Unblocked(h)
  /\ IF request[onBill[h]] # "none" /\ TransferOf[onDelivery[h]] \in Matching
       THEN Continue(h, "checkBill")
       ELSE Fail(h)

\* The bill must exist and be unpaid, and the request not be reconciled.
Settleable(b) == bill[b] = "Unpaid" /\ request[b] # "reconciled"

CheckBill(h) ==
  /\ At(h, "checkBill")
  /\ IF ~ Settleable(onBill[h])
       THEN Fail(h)
       ELSE Continue(h, IF receipt[onBill[h]] = 0 THEN "callbackReceipt"
                                                  ELSE "callbackUpdate")

CallbackReceipt(h) ==
  At(h, "callbackReceipt") /\ CreateReceiptCode(h, "callbackUpdate")

CallbackUpdate(h) ==
  At(h, "callbackUpdate") /\ WriteBill(h, "callbackCommit")

\* Mutant: no unique index.
DuplicateLog_NoIndex(t) == FALSE

\* UNIQUE (external_transaction_id)
DuplicateLog(t) == t \in paymentLog

\* saveRequest, savePaymentLog (UNIQUE external_transaction_id), saveAudit
\* and COMMIT.
CallbackCommit(h) ==
  LET b == onBill[h]
      d == onDelivery[h]
      t == TransferOf[d]
  IN /\ At(h, "callbackCommit")
     /\ IF DuplicateLog(t)
          THEN Fail(h)
          ELSE /\ bill' = [bill EXCEPT ![b] = "Paid"]
               /\ receipt' = WrittenReceipt(h)
               /\ request' = [request EXCEPT ![b] = "reconciled"]
               /\ paymentLog' = paymentLog \union {t}
               /\ audit' = [audit EXCEPT ![d] = "success"]
               /\ Return(h)
               /\ UNCHANGED period

\* Mutant: the error reason lands in the result column.
RejectAudit_WrongColumn(h) ==
  /\ At(h, "rejectAudit")
  /\ audit' = [audit EXCEPT ![onDelivery[h]] = "INVALID_REQUEST"]
  /\ Return(h)
  /\ UNCHANGED <<bill, receipt, request, paymentLog, period>>

\* The catch block writes the audit row in a transaction of its own.
RejectAudit(h) ==
  /\ At(h, "rejectAudit")
  /\ audit' = [audit EXCEPT ![onDelivery[h]] = "rejected"]
  /\ Return(h)
  /\ UNCHANGED <<bill, receipt, request, paymentLog, period>>

Callback(h) ==
  \/ RefuseCallback(h) \/ AcceptCallback(h) \/ FindDuplicate(h)
  \/ LockRequest(h) \/ CheckBill(h) \/ CallbackReceipt(h)
  \/ CallbackUpdate(h) \/ CallbackCommit(h) \/ RejectAudit(h)

-----------------------------------------------------------------------------
(* UpdateBillingOrderUseCase (confirm, cancel) and                         *)
(* DeleteBillingOrderUseCase.  findOrder and findPeriod take no lock.      *)

StartOrder(h, use, b) ==
  /\ Start(h, use, b, "findOrder")
  /\ UNCHANGED tables
  /\ UNCHANGED onDelivery

\* ORDER_ALREADY_PAID and PAID_ORDER_CANNOT_BE_DELETED are decided on the
\* row read here.
FindOrder(h) ==
  LET b == onBill[h]
  IN /\ At(h, "findOrder")
     /\ IF bill[b] = "none" \/ (bill[b] = "Paid" /\ op[h] # "cancel")
          THEN Fail(h)
          ELSE /\ GoTo(h, "findPeriod")
               /\ loaded' = [loaded EXCEPT ![h] =
                    IF receipt[b] = 0 THEN "unreceipted" ELSE "receipted"]
               /\ UNCHANGED tables
               /\ UNCHANGED <<op, onBill, onDelivery, code>>

AfterFindPeriod(h) ==
  IF op[h] = "delete"
    THEN "deleteBill"
    ELSE IF op[h] = "confirm" /\ loaded[h] = "unreceipted"
           THEN "orderReceipt"
           ELSE "updateBill"

FindPeriod(h) ==
  /\ At(h, "findPeriod")
  /\ IF period # "Active" THEN Fail(h) ELSE Continue(h, AfterFindPeriod(h))

OrderReceipt(h) == At(h, "orderReceipt") /\ CreateReceiptCode(h, "updateBill")

\* An UPDATE of a row deleted meanwhile matches nothing and is no error.
UpdateBill(h) ==
  /\ At(h, "updateBill")
  /\ WriteBill(h, IF bill[onBill[h]] = "none" THEN "orderGone"
                                              ELSE "updateRequest")

OrderGone(h) == At(h, "orderGone") /\ Return(h) /\ UNCHANGED tables

\* Mutants: a cancellation, or a confirmation, that forgets the request.
RequestAfter_NoReset(status, paid) ==
  IF status # "none" /\ paid THEN "reconciled" ELSE status

RequestAfter_NoReconcile(status, paid) ==
  IF status = "none" \/ paid THEN status ELSE "pending"

\* Confirming marks the request reconciled, cancelling resets it.
RequestAfter(status, paid) ==
  IF status = "none" THEN "none"
                     ELSE IF paid THEN "reconciled" ELSE "pending"

\* The UPDATE of the request row, and COMMIT.
UpdateRequest(h) ==
  LET b == onBill[h]
      paid == op[h] = "confirm"
  IN /\ At(h, "updateRequest")
     /\ Unblocked(h)
     /\ bill' = [bill EXCEPT ![b] = IF paid THEN "Paid" ELSE "Unpaid"]
     /\ receipt' = WrittenReceipt(h)
     /\ request' = [request EXCEPT ![b] = RequestAfter(@, paid)]
     /\ Return(h)
     /\ UNCHANGED <<paymentLog, audit, period>>

DeleteBill(h) ==
  /\ At(h, "deleteBill")
  /\ Unblocked(h)
  /\ Continue(h, IF bill[onBill[h]] = "none" THEN "orderGone"
                                             ELSE "cascadeRequest")

\* The rows of bills B disappear, and with them, ON DELETE CASCADE, their
\* requests and payment logs.
RemoveBills(B) ==
  /\ bill' = [b \in Bill |-> IF b \in B THEN "none" ELSE bill[b]]
  /\ receipt' = [b \in Bill |-> IF b \in B THEN 0 ELSE receipt[b]]
  /\ request' = [b \in Bill |-> IF b \in B THEN "none" ELSE request[b]]
  /\ paymentLog' = {t \in paymentLog : TransferBill[t] \notin B}

CascadeRequest(h) ==
  /\ At(h, "cascadeRequest")
  /\ Unblocked(h)
  /\ RemoveBills({onBill[h]})
  /\ Return(h)
  /\ UNCHANGED <<audit, period>>

Order(h) ==
  \/ FindOrder(h) \/ FindPeriod(h) \/ OrderReceipt(h) \/ UpdateBill(h)
  \/ OrderGone(h) \/ UpdateRequest(h) \/ DeleteBill(h) \/ CascadeRequest(h)

-----------------------------------------------------------------------------
(* SendTuitionPaymentRequestUseCase: no lock; the request is saved as a    *)
(* whole, and TypeORM's save updates only the columns that differ from the *)
(* row it loads just before.                                               *)

StartSend(h, b) ==
  /\ Start(h, "send", b, "sendBill")
  /\ UNCHANGED tables
  /\ UNCHANGED onDelivery

SendBill(h) ==
  /\ At(h, "sendBill")
  /\ IF bill[onBill[h]] = "Unpaid" THEN Continue(h, "sendRequest") ELSE Fail(h)

SendRequest(h) ==
  /\ At(h, "sendRequest")
  /\ Continue(h, IF request[onBill[h]] = "none" THEN "sendInsert"
                                                ELSE "sendLoad")

\* A row deleted meanwhile is inserted anew, and fails on its foreign key.
SendLoad(h) ==
  LET b == onBill[h]
  IN /\ At(h, "sendLoad")
     /\ GoTo(h, IF request[b] = "none" THEN "sendInsert" ELSE "sendUpdate")
     /\ loaded' = [loaded EXCEPT ![h] = request[b]]
     /\ UNCHANGED tables
     /\ UNCHANGED <<op, onBill, onDelivery, code>>

\* reissue(): the status column is written only if it was not pending.
SendUpdate(h) ==
  /\ At(h, "sendUpdate")
  /\ Unblocked(h)
  /\ request' = [request EXCEPT ![onBill[h]] =
       IF @ = "none" \/ loaded[h] = "pending" THEN @ ELSE "pending"]
  /\ Return(h)
  /\ UNCHANGED <<bill, receipt, paymentLog, audit, period>>

\* UNIQUE (bill_id) and the foreign key to the bill
SendInsert(h) ==
  LET b == onBill[h]
  IN /\ At(h, "sendInsert")
     /\ Unblocked(h)
     /\ IF request[b] # "none" \/ bill[b] = "none"
          THEN Fail(h)
          ELSE /\ request' = [request EXCEPT ![b] = "pending"]
               /\ Return(h)
               /\ UNCHANGED <<bill, receipt, paymentLog, audit, period>>

Send(h) ==
  SendBill(h) \/ SendRequest(h) \/ SendLoad(h) \/ SendUpdate(h)
              \/ SendInsert(h)

-----------------------------------------------------------------------------
(* ClaimTuitionTransferUseCase: the request is locked before it is read.   *)

StartClaim(h, b) ==
  /\ Start(h, "claim", b, "claimRequest")
  /\ UNCHANGED tables
  /\ UNCHANGED onDelivery

ClaimRequest(h) ==
  /\ At(h, "claimRequest")
  /\ Unblocked(h)
  /\ IF request[onBill[h]] = "none" THEN Fail(h) ELSE Continue(h, "claimBill")

\* Settled already: answer as is.  Claimed already: INVALID_PAYMENT_STATE.
ClaimBill(h) ==
  LET b == onBill[h]
  IN /\ At(h, "claimBill")
     /\ IF bill[b] = "Unpaid" /\ request[b] = "pending"
          THEN Continue(h, "claimSave")
          ELSE Fail(h)

\* saveRequest; the 'transfer_claimed' log checks its foreign keys; COMMIT.
ClaimSave(h) ==
  /\ At(h, "claimSave")
  /\ Unblocked(h)
  /\ request' = [request EXCEPT ![onBill[h]] = "processing"]
  /\ Return(h)
  /\ UNCHANGED <<bill, receipt, paymentLog, audit, period>>

Claim(h) == ClaimRequest(h) \/ ClaimBill(h) \/ ClaimSave(h)

-----------------------------------------------------------------------------
(* UpdatePaymentPeriodStatusUseCase and DeletePaymentPeriodUseCase         *)

SetPeriodStatus(status) ==
  /\ "setPeriod" \in Operations
  /\ period # "none"
  /\ period' = status
  /\ UNCHANGED <<bill, receipt, request, paymentLog, audit>>
  /\ UNCHANGED locals

StartDeletePeriod(h) ==
  /\ Start(h, "deletePeriod", NoBill, "countPaid")
  /\ UNCHANGED tables
  /\ UNCHANGED onDelivery

\* findPeriod and hasPaidOrders
CountPaid(h) ==
  /\ At(h, "countPaid")
  /\ IF period = "none" \/ \E b \in Bill : bill[b] = "Paid"
       THEN Fail(h)
       ELSE Continue(h, "deletePeriodRows")

DeletePeriodRows(h) ==
  /\ At(h, "deletePeriodRows")
  /\ Unblocked(h)
  /\ RemoveBills(Bill)
  /\ period' = "none"
  /\ Return(h)
  /\ UNCHANGED audit

DeletePeriod(h) == CountPaid(h) \/ DeletePeriodRows(h)

-----------------------------------------------------------------------------
(* The database and the process.                                           *)

\* Mutant: no deadlock detection.
Deadlocked_Undetected(S) == FALSE

\* Handlers waiting for each other in a circle.
Deadlocked(S) ==
  /\ S # {}
  /\ \A h \in S : Blockers(h) \cap S # {}
  /\ \A g \in S : \E h \in S : g \in Blockers(h)

\* PostgreSQL aborts one of them.
DeadlockVictim(h) ==
  /\ \E S \in SUBSET Handler : h \in S /\ Deadlocked(S)
  /\ Fail(h)

\* The Node process dies: every open transaction is rolled back, every
\* request is lost.
Crash ==
  /\ "crash" \in Operations
  /\ \E h \in Handler : pc[h] # "idle"
  /\ pc' = [h \in Handler |-> "idle"]
  /\ op' = [h \in Handler |-> "none"]
  /\ onBill' = [h \in Handler |-> NoBill]
  /\ onDelivery' = [h \in Handler |-> NoDelivery]
  /\ code' = [h \in Handler |-> 0]
  /\ loaded' = [h \in Handler |-> "none"]
  /\ UNCHANGED tables

-----------------------------------------------------------------------------
\* A new request reaches an idle handler.
Arrive(h) ==
  \/ \E d \in Delivery : ReceiveCallback(h, d)
  \/ \E b \in Bill, use \in {"confirm", "cancel", "delete"} :
       StartOrder(h, use, b)
  \/ \E b \in Bill : StartSend(h, b) \/ StartClaim(h, b)
  \/ StartDeletePeriod(h)

\* A request in progress takes its next statement.
Advance(h) ==
  Callback(h) \/ Order(h) \/ Send(h) \/ Claim(h) \/ DeletePeriod(h)

Next ==
  \/ \E h \in Handler : Arrive(h) \/ Advance(h) \/ DeadlockVictim(h)
  \/ \E status \in {"Active", "Closed"} : SetPeriodStatus(status)
  \/ Crash

Spec == Init /\ [][Next]_vars

\* A request in progress runs on.  Strong fairness: the lock manager grants
\* a row lock in the order it was asked for, so a waiter that finds the lock
\* free again and again gets it.  Deadlocks are broken by the database.
\* Nobody is obliged to send requests.
Fairness ==
  \A h \in Handler : SF_vars(Advance(h)) /\ WF_vars(DeadlockVictim(h))

FairSpec == Spec /\ Fairness

-----------------------------------------------------------------------------
(* Properties                                                              *)

Credited == {TransferOf[d] : d \in {e \in Delivery : audit[e] = "success"}}

\* A payment request is shown as reconciled only while its bill is paid,
\* whichever of callback, confirmation, cancellation and reissue ran last.
ReconciledImpliesPaid ==
  \A b \in Bill : request[b] = "reconciled" => bill[b] = "Paid"

\* Without reissued requests the two tables agree both ways: every other
\* use case writes bill and request in one transaction that holds both rows.
PaidMatchesReconciled ==
  \A b \in Bill :
    request[b] # "none" => (bill[b] = "Paid" <=> request[b] = "reconciled")

\* A delivery is answered 'success' at most once per bank transfer, however
\* often the bank repeats it and whatever staff do in between.
TransferCreditedOnce ==
  \A d, e \in Delivery :
    audit[d] = "success" /\ audit[e] = "success" /\ d # e
      => TransferOf[d] # TransferOf[e]

\* The audit trail and the payment log agree: a transfer answered with
\* success or duplicate is in the log as long as its bill exists, and every
\* logged transfer has its successful delivery.
AuditMatchesLog ==
  /\ \A d \in Delivery :
       audit[d] \in {"success", "duplicate"} =>
         \/ TransferOf[d] \in paymentLog
         \/ bill[TransferBill[TransferOf[d]]] = "none"
  /\ paymentLog \subseteq Credited

\* A bill marked paid always carries a receipt code, and no two bills share
\* one, although codes are computed from a stale maximum.
PaidHasOwnReceipt ==
  \A b \in Bill :
    /\ bill[b] = "Paid" => receipt[b] # 0
    /\ \A c \in Bill \ {b} : receipt[b] # 0 => receipt[c] # receipt[b]

SettlesUnpaid ==
  \A d \in Delivery :
    audit[d] # "success" /\ audit'[d] = "success"
      => bill[TransferBill[TransferOf[d]]] = "Unpaid"

KeepsSettlement ==
  \A b \in Bill : request[b] = "reconciled" => request'[b] # "processing"

\* A callback settles a bill that is unpaid at the moment of its commit: it
\* never credits a transfer to a bill someone else has just settled.
CallbackPaysUnpaid == [][SettlesUnpaid]_vars

\* A claim by the student never takes back a settlement.
ClaimNeverUnsettles == [][KeepsSettlement]_vars

\* Every request that is being served is answered, deadlocks included.
HandlersReturn == \A h \in Handler : pc[h] # "idle" ~> pc[h] = "idle"

\* Unless the process dies, every received callback gets its verdict.
CallbacksDecided ==
  \A d \in Delivery : audit[d] = "received" ~> audit[d] # "received"

Ledger == INSTANCE SettlementLedger WITH bill <- bill, credited <- Credited

\* The payment subsystem implements the ledger.
ImplementsLedger == Ledger!LedgerSpec

\* A paid bill is not deleted.
PaidBillNotDeleted ==
  [][\A b \in Bill : bill[b] = "Paid" => bill'[b] # "none"]_vars

\* Nothing changes the bills of a closed period.
ClosedPeriodFrozen ==
  [][period = "Closed" => \A b \in Bill : bill'[b] = bill[b]]_vars

\* A confirmation is never committed over a bill that is already paid.
NotCollectedTwice ==
  [][\A h \in Handler :
       pc[h] = "updateRequest" /\ op[h] = "confirm" /\ pc'[h] = "idle"
         /\ bill'[onBill[h]] = "Paid" => bill[onBill[h]] # "Paid"]_vars
=============================================================================
