------------------------- MODULE TuitionPaymentProof -------------------------
(***************************************************************************)
(* Safety of the payment handlers for any number of bills, transfers,      *)
(* deliveries and handlers.                                                *)
(***************************************************************************)
EXTENDS TuitionPayment, FiniteSetTheorems, TLAPS

(* The inductive invariant, part by part.                                  *)

\* The steps that work on one bill.
BillPc == Pc \ {"idle", "countPaid", "deletePeriodRows"}

\* Where a handler is tells which use case it runs and on what; a callback
\* in progress has left its audit row in 'received'.
LocalsAgree ==
  \A h \in Handler :
    /\ pc[h] \in BillPc => onBill[h] \in Bill
    /\ pc[h] \in CallbackPc <=> op[h] = "callback"
    /\ pc[h] \in CallbackPc =>
         /\ onDelivery[h] \in Delivery
         /\ onBill[h] = TransferBill[TransferOf[onDelivery[h]]]
         /\ audit[onDelivery[h]] = "received"

\* A delivery is processed by one handler.
DeliveriesApart ==
  \A g, h \in Handler :
    pc[g] \in CallbackPc /\ pc[h] \in CallbackPc
      /\ onDelivery[g] = onDelivery[h] => g = h

\* SELECT ... FOR UPDATE excludes: one holder of a request row, and one
\* holder of a bill row.
RequestLockExclusive ==
  \A g, h \in Handler :
    HoldsRequest(g) /\ HoldsRequest(h) /\ onBill[g] = onBill[h] => g = h

BillLockExclusive ==
  \A g, h \in Handler :
    HoldsBill(g) /\ HoldsBill(h) /\ onBill[g] = onBill[h] => g = h

\* What a handler has seen of the rows it locks stays true.
SettlingPc == {"callbackReceipt", "callbackUpdate", "callbackCommit"}

LockedRowsStable ==
  \A h \in Handler :
    /\ HoldsBill(h) => bill[onBill[h]] # "none"
    /\ pc[h] \in SettlingPc => bill[onBill[h]] = "Unpaid"
    /\ pc[h] = "claimSave" => request[onBill[h]] = "pending"

IInv ==
  /\ TypeOK
  /\ LocalsAgree
  /\ DeliveriesApart
  /\ RequestLockExclusive
  /\ BillLockExclusive
  /\ LockedRowsStable
  /\ ReconciledImpliesPaid
  /\ AuditMatchesLog
  /\ TransferCreditedOnce

-----------------------------------------------------------------------------
(* The next receipt number.                                                *)

\* A function into Nat has a greatest value on a finite non-empty set.
LEMMA GreatestValue ==
  ASSUME NEW S, IsFiniteSet(S), S # {}, NEW f \in [S -> Nat]
  PROVE  \E x \in S : \A y \in S : f[y] <= f[x]
<1> DEFINE Has(T) == \E x \in T : \A y \in T : f[y] <= f[x]
           Bad == {T \in SUBSET S : T # {} /\ ~ Has(T)}
<1>1. SUFFICES ASSUME Bad # {} PROVE FALSE
  OBVIOUS
<1>2. IsWellFoundedOn(StrictSubsetOrdering(S), FiniteSubsetsOf(S))
  BY FS_StrictSubsetOrderingWellFounded
<1>3. Bad \subseteq FiniteSubsetsOf(S)
  BY FS_FiniteSubsetsOfFinite
<1>4. PICK M \in Bad : \A T \in Bad : <<T, M>> \notin StrictSubsetOrdering(S)
  <2> HIDE DEF Bad
  <2> QED BY <1>1, <1>2, <1>3, WFMin
<1>5. PICK m \in M : TRUE
  BY <1>4
<1>6. Has(M \ {m})
  <2>1. CASE M = {m}
    <3>1. Has(M)
      BY <2>1, <1>4
    <3> QED BY <3>1, <1>4
  <2>2. CASE M # {m}
    <3>1. <<M \ {m}, M>> \in StrictSubsetOrdering(S)
      BY <1>4, <1>5 DEF StrictSubsetOrdering
    <3>2. M \ {m} \notin Bad
      BY <3>1, <1>4
    <3>3. M \ {m} \in SUBSET S /\ M \ {m} # {}
      BY <2>2, <1>4, <1>5
    <3> QED BY <3>2, <3>3
  <2> QED BY <2>1, <2>2
<1>7. PICK x \in M \ {m} : \A y \in M \ {m} : f[y] <= f[x]
  BY <1>6
<1>8. M \subseteq S /\ ~ Has(M)
  BY <1>4
<1>9. \A y \in M : f[y] \in Nat
  BY <1>8
<1>10. CASE f[m] <= f[x]
  <2>1. Has(M)
    BY <1>7, <1>10
  <2> QED BY <2>1, <1>8
<1>11. CASE ~ (f[m] <= f[x])
  <2>1. \A y \in M : f[y] <= f[m]
    BY <1>5, <1>7, <1>9, <1>11
  <2> QED BY <2>1, <1>5, <1>8
<1> QED BY <1>10, <1>11

\* createReceiptCode returns a positive number greater than every receipt in
\* the table.
LEMMA NextReceiptFresh ==
  ASSUME TypeOK, Bill # {}
  PROVE  /\ NextReceipt \in Nat \ {0}
         /\ \A b \in Bill : receipt[b] < NextReceipt
<1>1. PICK m \in Bill : \A b \in Bill : receipt[b] <= receipt[m]
  BY GreatestValue, PaymentConstants DEF TypeOK
<1>2. \A b \in Bill : receipt[b] \in Nat
  BY DEF TypeOK
<1>3. receipt[m] + 1 \in {receipt[b] + 1 : b \in Bill}
  OBVIOUS
<1>4. \A b \in Bill : receipt[b] < receipt[m] + 1
  BY <1>1, <1>2
<1>5. /\ NextReceipt \in {receipt[b] + 1 : b \in Bill}
      /\ \A b \in Bill : receipt[b] < NextReceipt
  BY <1>3, <1>4 DEF NextReceipt
<1> QED BY <1>2, <1>5

-----------------------------------------------------------------------------
(* How a step moves the program counters and which steps write tables.     *)

HandlerStep(h) == Arrive(h) \/ Advance(h) \/ DeadlockVictim(h)

\* The steps that change a row.
Writes(h) ==
  \/ \E d \in Delivery : ReceiveCallback(h, d)
  \/ FindDuplicate(h) \/ CallbackCommit(h) \/ RejectAudit(h)
  \/ UpdateRequest(h) \/ CascadeRequest(h)
  \/ SendUpdate(h) \/ SendInsert(h) \/ ClaimSave(h)
  \/ DeletePeriodRows(h)

\* A step of one handler leaves the others where they are.
LEMMA OthersStay ==
  ASSUME TypeOK, NEW h \in Handler, HandlerStep(h), NEW g \in Handler, g # h
  PROVE  /\ pc'[g] = pc[g]
         /\ op'[g] = op[g]
         /\ onBill'[g] = onBill[g]
         /\ onDelivery'[g] = onDelivery[g]
<1> USE DEF TypeOK, At, GoTo, Return, Fail, Continue, Start, WriteBill,
            CreateReceiptCode
<1>1. CASE Arrive(h)
  BY <1>1 DEF Arrive, ReceiveCallback, StartOrder, StartSend, StartClaim,
              StartDeletePeriod
<1>2. CASE Callback(h)
  BY <1>2 DEF Callback, RefuseCallback, AcceptCallback, FindDuplicate,
              LockRequest, CheckBill, CallbackReceipt, CallbackUpdate,
              CallbackCommit, RejectAudit
<1>3. CASE Order(h)
  BY <1>3 DEF Order, FindOrder, FindPeriod, OrderReceipt, UpdateBill,
              OrderGone, UpdateRequest, DeleteBill, CascadeRequest
<1>4. CASE Send(h)
  BY <1>4 DEF Send, SendBill, SendRequest, SendLoad, SendUpdate, SendInsert
<1>5. CASE Claim(h)
  BY <1>5 DEF Claim, ClaimRequest, ClaimBill, ClaimSave
<1>6. CASE DeletePeriod(h)
  BY <1>6 DEF DeletePeriod, CountPaid, DeletePeriodRows
<1>7. CASE DeadlockVictim(h)
  BY <1>7 DEF DeadlockVictim
<1> QED BY <1>1, <1>2, <1>3, <1>4, <1>5, <1>6, <1>7
        DEF HandlerStep, Advance

\* Every other step of a handler only moves its own program counter.
LEMMA OnlyWritersWrite ==
  ASSUME NEW h \in Handler, HandlerStep(h)
  PROVE  Writes(h) \/ UNCHANGED tables
<1> USE DEF Writes, Return, Fail, Continue, WriteBill, CreateReceiptCode
<1>1. CASE Arrive(h)
  BY <1>1 DEF Arrive, StartOrder, StartSend, StartClaim, StartDeletePeriod
<1>2. CASE Callback(h)
  BY <1>2 DEF Callback, RefuseCallback, AcceptCallback, LockRequest,
              CheckBill, CallbackReceipt, CallbackUpdate
<1>3. CASE Order(h)
  BY <1>3 DEF Order, FindOrder, FindPeriod, OrderReceipt, UpdateBill,
              OrderGone, DeleteBill
<1>4. CASE Send(h)
  BY <1>4 DEF Send, SendBill, SendRequest, SendLoad
<1>5. CASE Claim(h)
  BY <1>5 DEF Claim, ClaimRequest, ClaimBill
<1>6. CASE DeletePeriod(h)
  BY <1>6 DEF DeletePeriod, CountPaid
<1>7. CASE DeadlockVictim(h)
  BY <1>7 DEF DeadlockVictim
<1> QED BY <1>1, <1>2, <1>3, <1>4, <1>5, <1>6, <1>7
        DEF HandlerStep, Advance

\* A row lock is acquired only by a handler that waited for it and found
\* nobody in its way, and a handler that holds one keeps to its bill.
LEMMA LockAcquired ==
  ASSUME TypeOK, NEW h \in Handler, HandlerStep(h)
  PROVE  /\ HoldsRequest(h)' =>
              /\ onBill'[h] = onBill[h]
              /\ HoldsRequest(h) \/ (AwaitsRequest(h) /\ Unblocked(h))
         /\ HoldsBill(h)' =>
              /\ onBill'[h] = onBill[h]
              /\ AwaitsBill(h) /\ Unblocked(h)
<1> USE DEF TypeOK, HoldsRequest, HoldsBill, AwaitsRequest, AwaitsBill, At,
            GoTo, Return, Fail, Continue, Start, WriteBill,
            CreateReceiptCode
<1>1. CASE Arrive(h)
  BY <1>1 DEF Arrive, ReceiveCallback, StartOrder, StartSend, StartClaim,
              StartDeletePeriod
<1>2. CASE Callback(h)
  BY <1>2 DEF Callback, RefuseCallback, AcceptCallback, FindDuplicate,
              LockRequest, CheckBill, CallbackReceipt, CallbackUpdate,
              CallbackCommit, RejectAudit
<1>3. CASE Order(h)
  BY <1>3 DEF Order, FindOrder, FindPeriod, AfterFindPeriod, OrderReceipt,
              UpdateBill, OrderGone, UpdateRequest, DeleteBill,
              CascadeRequest
<1>4. CASE Send(h)
  BY <1>4 DEF Send, SendBill, SendRequest, SendLoad, SendUpdate, SendInsert
<1>5. CASE Claim(h)
  BY <1>5 DEF Claim, ClaimRequest, ClaimBill, ClaimSave
<1>6. CASE DeletePeriod(h)
  BY <1>6 DEF DeletePeriod, CountPaid, DeletePeriodRows
<1>7. CASE DeadlockVictim(h)
  BY <1>7 DEF DeadlockVictim
<1> QED BY <1>1, <1>2, <1>3, <1>4, <1>5, <1>6, <1>7
        DEF HandlerStep, Advance

-----------------------------------------------------------------------------
(* Each part of the invariant is preserved by a handler's step.            *)

LEMMA BlockersHold ==
  ASSUME NEW g \in Handler, NEW h \in Handler, g # h, Unblocked(h),
         onBill[g] = onBill[h]
  PROVE  /\ AwaitsRequest(h) => ~ HoldsRequest(g)
         /\ AwaitsBill(h) => ~ HoldsBill(g)
BY DEF Unblocked, Blockers

LEMMA RequestLockStep ==
  ASSUME IInv, NEW h \in Handler, HandlerStep(h)
  PROVE  RequestLockExclusive'
<1> USE DEF IInv
<1>1. SUFFICES ASSUME NEW f \in Handler, NEW g \in Handler, f # g,
                      HoldsRequest(f)', HoldsRequest(g)',
                      onBill'[f] = onBill'[g]
               PROVE  FALSE
  BY DEF RequestLockExclusive
<1>2. ASSUME NEW k \in Handler, k # h, HoldsRequest(h)', HoldsRequest(k)',
             onBill'[h] = onBill'[k]
      PROVE  FALSE
  <2>1. HoldsRequest(k) /\ onBill[k] = onBill[h]
    BY <1>2, OthersStay, LockAcquired DEF HoldsRequest
  <2>2. ~ HoldsRequest(h)
    BY <1>2, <2>1 DEF RequestLockExclusive
  <2> QED BY <1>2, <2>1, <2>2, LockAcquired, BlockersHold
<1>3. CASE f # h /\ g # h
  BY <1>1, <1>3, OthersStay DEF RequestLockExclusive, HoldsRequest
<1> QED BY <1>1, <1>2, <1>3

LEMMA BillLockStep ==
  ASSUME IInv, NEW h \in Handler, HandlerStep(h)
  PROVE  BillLockExclusive'
<1> USE DEF IInv
<1>1. SUFFICES ASSUME NEW f \in Handler, NEW g \in Handler, f # g,
                      HoldsBill(f)', HoldsBill(g)', onBill'[f] = onBill'[g]
               PROVE  FALSE
  BY DEF BillLockExclusive
<1>2. ASSUME NEW k \in Handler, k # h, HoldsBill(h)', HoldsBill(k)',
             onBill'[h] = onBill'[k]
      PROVE  FALSE
  <2>1. HoldsBill(k) /\ onBill[k] = onBill[h]
    BY <1>2, OthersStay, LockAcquired DEF HoldsBill
  <2> QED BY <1>2, <2>1, LockAcquired, BlockersHold
<1>3. CASE f # h /\ g # h
  BY <1>1, <1>3, OthersStay DEF BillLockExclusive, HoldsBill
<1> QED BY <1>1, <1>2, <1>3

\* The types of the handlers' locals, and of the tables.
LocalsTyped ==
  /\ pc \in [Handler -> Pc]
  /\ op \in [Handler -> Op]
  /\ onBill \in [Handler -> Bill \union {NoBill}]
  /\ onDelivery \in [Handler -> Delivery \union {NoDelivery}]
  /\ code \in [Handler -> Nat]
  /\ loaded \in [Handler -> Loaded]

TablesTyped ==
  /\ bill \in [Bill -> BillStatus]
  /\ receipt \in [Bill -> Nat]
  /\ request \in [Bill -> RequestStatus]
  /\ paymentLog \subseteq Transfer
  /\ audit \in [Delivery -> AuditResult]
  /\ period \in PeriodStatus

LEMMA TypeParts == TypeOK <=> TablesTyped /\ LocalsTyped
BY DEF TypeOK, TablesTyped, LocalsTyped

LEMMA TablesKeepType ==
  ASSUME TablesTyped, UNCHANGED tables
  PROVE  TablesTyped'
BY DEF TablesTyped, tables

LEMMA ReturnType ==
  ASSUME LocalsTyped, NEW h \in Handler, Return(h)
  PROVE  LocalsTyped'
BY DEF LocalsTyped, Return, Pc, Op, Loaded, RequestStatus

LEMMA GoToType ==
  ASSUME LocalsTyped, NEW h \in Handler, NEW label \in Pc, GoTo(h, label)
  PROVE  pc' \in [Handler -> Pc]
BY DEF LocalsTyped, GoTo

LEMMA ContinueType ==
  ASSUME LocalsTyped, NEW h \in Handler, NEW label \in Pc, Continue(h, label)
  PROVE  LocalsTyped'
BY GoToType DEF LocalsTyped, Continue

LEMMA FailType ==
  ASSUME LocalsTyped, NEW h \in Handler, Fail(h)
  PROVE  LocalsTyped'
<1>1. CASE op[h] = "callback"
  <2>1. GoTo(h, "rejectAudit") /\ "rejectAudit" \in Pc
    BY <1>1 DEF Fail, Pc, CallbackPc
  <2> QED BY <1>1, <2>1, GoToType DEF Fail, LocalsTyped
<1>2. CASE op[h] # "callback"
  BY <1>2, ReturnType DEF Fail
<1> QED BY <1>1, <1>2

LEMMA CodeType ==
  ASSUME TypeOK, NEW h \in Handler, onBill[h] \in Bill, NEW label \in Pc,
         CreateReceiptCode(h, label)
  PROVE  LocalsTyped'
BY TypeParts, GoToType, NextReceiptFresh DEF LocalsTyped, CreateReceiptCode

\* A request in progress keeps the locals well-typed.
LEMMA LocalsTypeStep ==
  ASSUME TypeOK, LocalsAgree, NEW h \in Handler, HandlerStep(h)
  PROVE  LocalsTyped'
<1> USE TypeParts, ReturnType, ContinueType, FailType DEF Pc, CallbackPc
<1>1. CASE Arrive(h)
  <2>1. TransferBill \in [Transfer -> Bill] /\ TransferOf \in [Delivery -> Transfer]
    BY PaymentConstants
  <2> QED BY <1>1, <2>1
          DEF Arrive, ReceiveCallback, StartOrder, StartSend, StartClaim,
              StartDeletePeriod, Start, GoTo, LocalsTyped, Op
<1>2. CASE CallbackReceipt(h) \/ OrderReceipt(h)
  <2>1. onBill[h] \in Bill
    BY <1>2 DEF CallbackReceipt, OrderReceipt, At, LocalsAgree, BillPc
  <2> QED BY <1>2, <2>1, CodeType DEF CallbackReceipt, OrderReceipt
<1>3. CASE FindOrder(h) \/ SendLoad(h)
  <2>1. onBill[h] \in Bill
    BY <1>3 DEF FindOrder, SendLoad, At, LocalsAgree, BillPc
  <2>2. request[onBill[h]] \in RequestStatus
    BY <2>1 DEF TablesTyped
  <2> QED BY <1>3, <2>2
          DEF FindOrder, SendLoad, GoTo, LocalsTyped, Loaded
<1>4. CASE Callback(h) /\ ~ CallbackReceipt(h)
  BY <1>4 DEF Callback, RefuseCallback, AcceptCallback, FindDuplicate,
              LockRequest, CheckBill, CallbackUpdate, WriteBill,
              CallbackCommit, RejectAudit
<1>5. CASE Order(h) /\ ~ OrderReceipt(h) /\ ~ FindOrder(h)
  BY <1>5 DEF Order, FindPeriod, AfterFindPeriod, UpdateBill, WriteBill,
              OrderGone, UpdateRequest, DeleteBill, CascadeRequest
<1>6. CASE Send(h) /\ ~ SendLoad(h)
  BY <1>6 DEF Send, SendBill, SendRequest, SendUpdate, SendInsert
<1>7. CASE Claim(h) \/ DeletePeriod(h)
  BY <1>7 DEF Claim, ClaimRequest, ClaimBill, ClaimSave, DeletePeriod,
              CountPaid, DeletePeriodRows
<1>8. CASE DeadlockVictim(h)
  BY <1>8 DEF DeadlockVictim
<1> QED BY <1>1, <1>2, <1>3, <1>4, <1>5, <1>6, <1>7, <1>8
        DEF HandlerStep, Advance

\* ... and so does every write of a table.
LEMMA TablesTypeStep ==
  ASSUME TypeOK, LocalsAgree, NEW h \in Handler, HandlerStep(h)
  PROVE  TablesTyped'
<1> USE TypeParts DEF TablesTyped, tables
<1>1. CASE UNCHANGED tables
  BY <1>1
<1>2. CASE CallbackCommit(h)
  <2>1. CASE DuplicateLog(TransferOf[onDelivery[h]])
    BY <2>1, <1>2 DEF CallbackCommit, Fail
  <2>2. CASE ~ DuplicateLog(TransferOf[onDelivery[h]])
    <3>1. WrittenReceipt(h) \in [Bill -> Nat]
      BY DEF WrittenReceipt, LocalsTyped
    <3>2. TransferOf[onDelivery[h]] \in Transfer
      BY <1>2, PaymentConstants DEF CallbackCommit, At, LocalsAgree, CallbackPc
    <3>3. /\ bill' = [bill EXCEPT ![onBill[h]] = "Paid"]
          /\ receipt' = WrittenReceipt(h)
          /\ request' = [request EXCEPT ![onBill[h]] = "reconciled"]
          /\ paymentLog' = paymentLog \union {TransferOf[onDelivery[h]]}
          /\ audit' = [audit EXCEPT ![onDelivery[h]] = "success"]
          /\ period' = period
      BY <1>2, <2>2 DEF CallbackCommit
    <3> QED BY <3>1, <3>2, <3>3 DEF BillStatus, RequestStatus, AuditResult
  <2> QED BY <2>1, <2>2
<1>3. CASE UpdateRequest(h)
  <2>1. WrittenReceipt(h) \in [Bill -> Nat]
    BY DEF WrittenReceipt, LocalsTyped
  <2> QED BY <1>3, <2>1
          DEF UpdateRequest, RequestAfter, BillStatus, RequestStatus
<1>4. CASE CascadeRequest(h) \/ DeletePeriodRows(h)
  BY <1>4 DEF CascadeRequest, DeletePeriodRows, RemoveBills, BillStatus,
              RequestStatus, PeriodStatus
<1>5. CASE SendUpdate(h) \/ SendInsert(h) \/ ClaimSave(h)
  BY <1>5 DEF SendUpdate, SendInsert, ClaimSave, Fail, RequestStatus
<1>6. CASE \/ \E d \in Delivery : ReceiveCallback(h, d)
           \/ FindDuplicate(h) \/ RejectAudit(h)
  BY <1>6 DEF ReceiveCallback, FindDuplicate, RejectAudit, Continue,
              AuditResult
<1> QED BY <1>1, <1>2, <1>3, <1>4, <1>5, <1>6, OnlyWritersWrite DEF Writes

LEMMA TypeStep ==
  ASSUME TypeOK, LocalsAgree, NEW h \in Handler, HandlerStep(h)
  PROVE  TypeOK'
<1>1. TablesTyped' /\ LocalsTyped'
  BY TablesTypeStep, LocalsTypeStep
<1> QED BY <1>1 DEF TypeOK, TablesTyped, LocalsTyped

\* A handler never writes the audit row of a delivery another one processes.
LEMMA AuditOfOthers ==
  ASSUME TypeOK, LocalsAgree, DeliveriesApart,
         NEW h \in Handler, HandlerStep(h),
         NEW g \in Handler, g # h, pc[g] \in CallbackPc
  PROVE  audit'[onDelivery[g]] = "received"
<1>1. onDelivery[g] \in Delivery /\ audit[onDelivery[g]] = "received"
  BY DEF LocalsAgree
<1>2. pc[h] \in CallbackPc => onDelivery[h] # onDelivery[g]
  BY DEF DeliveriesApart
<1>3. CASE UNCHANGED tables
  BY <1>1, <1>3 DEF tables
<1>4. CASE Writes(h)
  BY <1>1, <1>2, <1>4
     DEF Writes, ReceiveCallback, FindDuplicate, CallbackCommit, RejectAudit,
         UpdateRequest, CascadeRequest, SendUpdate, SendInsert, ClaimSave,
         DeletePeriodRows, Fail, Continue, tables, At, TypeOK, CallbackPc
<1> QED BY <1>3, <1>4, OnlyWritersWrite

\* Where the stepping handler itself goes.
LEMMA OwnLocals ==
  ASSUME TypeOK, LocalsAgree, NEW h \in Handler, HandlerStep(h)
  PROVE  /\ pc'[h] \in BillPc => onBill'[h] \in Bill
         /\ pc'[h] \in CallbackPc <=> op'[h] = "callback"
         /\ pc'[h] \in CallbackPc =>
              /\ onDelivery'[h] \in Delivery
              /\ onBill'[h] = TransferBill[TransferOf[onDelivery'[h]]]
              /\ audit'[onDelivery'[h]] = "received"
              /\ \/ audit[onDelivery'[h]] = "none"
                 \/ /\ pc[h] \in CallbackPc
                    /\ onDelivery'[h] = onDelivery[h]
<1> USE PaymentConstants
    DEF TypeOK, LocalsAgree, BillPc, Pc, CallbackPc, tables,
        At, GoTo, Return, Fail, Continue, Start, WriteBill, CreateReceiptCode
<1>1. CASE Arrive(h)
  BY <1>1 DEF Arrive, ReceiveCallback, StartOrder, StartSend, StartClaim,
              StartDeletePeriod
<1>2. CASE Callback(h)
  BY <1>2 DEF Callback, RefuseCallback, AcceptCallback, FindDuplicate,
              LockRequest, CheckBill, CallbackReceipt, CallbackUpdate,
              CallbackCommit, RejectAudit
<1>3. CASE Order(h)
  BY <1>3 DEF Order, FindOrder, FindPeriod, AfterFindPeriod, OrderReceipt,
              UpdateBill, OrderGone, UpdateRequest, DeleteBill,
              CascadeRequest
<1>4. CASE Send(h)
  BY <1>4 DEF Send, SendBill, SendRequest, SendLoad, SendUpdate, SendInsert
<1>5. CASE Claim(h)
  BY <1>5 DEF Claim, ClaimRequest, ClaimBill, ClaimSave
<1>6. CASE DeletePeriod(h)
  BY <1>6 DEF DeletePeriod, CountPaid, DeletePeriodRows
<1>7. CASE DeadlockVictim(h)
  BY <1>7 DEF DeadlockVictim
<1> QED BY <1>1, <1>2, <1>3, <1>4, <1>5, <1>6, <1>7
        DEF HandlerStep, Advance

LEMMA LocalsStep ==
  ASSUME TypeOK, LocalsAgree, DeliveriesApart,
         NEW h \in Handler, HandlerStep(h)
  PROVE  LocalsAgree' /\ DeliveriesApart'
<1>1. LocalsAgree'
  <2>1. SUFFICES ASSUME NEW g \in Handler
                 PROVE  /\ pc'[g] \in BillPc => onBill'[g] \in Bill
                        /\ pc'[g] \in CallbackPc <=> op'[g] = "callback"
                        /\ pc'[g] \in CallbackPc =>
                             /\ onDelivery'[g] \in Delivery
                             /\ onBill'[g] =
                                  TransferBill[TransferOf[onDelivery'[g]]]
                             /\ audit'[onDelivery'[g]] = "received"
    BY DEF LocalsAgree, BillPc, CallbackPc, Pc
  <2>2. CASE g = h
    BY <2>2, OwnLocals
  <2>3. CASE g # h
    BY <2>3, OthersStay, AuditOfOthers DEF LocalsAgree
  <2> QED BY <2>2, <2>3
<1>2. DeliveriesApart'
  <2>1. SUFFICES ASSUME NEW f \in Handler, NEW g \in Handler, f # g,
                        pc'[f] \in CallbackPc, pc'[g] \in CallbackPc,
                        onDelivery'[f] = onDelivery'[g]
                 PROVE  FALSE
    BY DEF DeliveriesApart, CallbackPc
  <2>2. ASSUME NEW k \in Handler, k # h, pc'[h] \in CallbackPc,
               pc'[k] \in CallbackPc, onDelivery'[h] = onDelivery'[k]
        PROVE  FALSE
    <3>1. pc[k] \in CallbackPc /\ onDelivery[k] = onDelivery'[h]
      BY <2>2, OthersStay
    <3>2. audit[onDelivery[k]] = "received"
      BY <3>1 DEF LocalsAgree
    <3>3. pc[h] \in CallbackPc /\ onDelivery[h] = onDelivery[k]
      BY <2>2, <3>1, <3>2, OwnLocals
    <3> QED BY <2>2, <3>1, <3>3 DEF DeliveriesApart
  <2>3. CASE f # h /\ g # h
    BY <2>1, <2>3, OthersStay DEF DeliveriesApart
  <2> QED BY <2>1, <2>2, <2>3
<1> QED BY <1>1, <1>2

\* While a handler holds a row lock nobody else changes the bill, and nobody
\* else changes an existing request.
LEMMA LockedRowsKept ==
  ASSUME IInv, NEW h \in Handler, HandlerStep(h),
         NEW g \in Handler, g # h, onBill[g] \in Bill
  PROVE  /\ HoldsRequest(g) \/ HoldsBill(g) =>
              bill'[onBill[g]] = bill[onBill[g]]
         /\ HoldsRequest(g) =>
              \/ request[onBill[g]] = "none"
              \/ request'[onBill[g]] = request[onBill[g]]
<1> USE DEF IInv, TypeOK, At, HoldsRequest, HoldsBill, AwaitsRequest
<1>1. CASE UNCHANGED tables
  BY <1>1 DEF tables
<1>2. CASE DeletePeriodRows(h)
  BY <1>2 DEF DeletePeriodRows, Unblocked, Blockers
<1>3. CASE CallbackCommit(h)
  BY <1>3 DEF CallbackCommit, Fail, tables, RequestLockExclusive,
              BillLockExclusive
<1>4. CASE UpdateRequest(h)
  BY <1>4, BlockersHold DEF UpdateRequest, BillLockExclusive
<1>5. CASE CascadeRequest(h)
  BY <1>5, BlockersHold DEF CascadeRequest, RemoveBills, BillLockExclusive
<1>6. CASE SendUpdate(h)
  BY <1>6, BlockersHold DEF SendUpdate
<1>7. CASE SendInsert(h)
  BY <1>7 DEF SendInsert, Fail, tables
<1>8. CASE ClaimSave(h)
  BY <1>8 DEF ClaimSave, RequestLockExclusive
<1>9. CASE \/ \E d \in Delivery : ReceiveCallback(h, d)
           \/ FindDuplicate(h)
           \/ RejectAudit(h)
  BY <1>9 DEF ReceiveCallback, FindDuplicate, RejectAudit, Continue, tables
<1> QED BY <1>1, <1>2, <1>3, <1>4, <1>5, <1>6, <1>7, <1>8, <1>9,
           OnlyWritersWrite DEF Writes

\* The stepping handler checked the rows it goes on to rely on.
LEMMA OwnRowsChecked ==
  ASSUME IInv, NEW h \in Handler, HandlerStep(h)
  PROVE  /\ HoldsBill(h)' => bill'[onBill'[h]] # "none"
         /\ pc'[h] \in SettlingPc => bill'[onBill'[h]] = "Unpaid"
         /\ pc'[h] = "claimSave" => request'[onBill'[h]] = "pending"
<1> USE DEF IInv, TypeOK, LockedRowsStable, SettlingPc, HoldsBill, tables,
            At, GoTo, Return, Fail, Continue, Start, WriteBill,
            CreateReceiptCode
<1>1. CASE Arrive(h)
  BY <1>1 DEF Arrive, ReceiveCallback, StartOrder, StartSend, StartClaim,
              StartDeletePeriod
<1>2. CASE Callback(h)
  BY <1>2 DEF Callback, RefuseCallback, AcceptCallback, FindDuplicate,
              LockRequest, CheckBill, Settleable, CallbackReceipt,
              CallbackUpdate, CallbackCommit, RejectAudit
<1>3. CASE Order(h)
  BY <1>3 DEF Order, FindOrder, FindPeriod, AfterFindPeriod, OrderReceipt,
              UpdateBill, OrderGone, UpdateRequest, DeleteBill,
              CascadeRequest
<1>4. CASE Send(h)
  BY <1>4 DEF Send, SendBill, SendRequest, SendLoad, SendUpdate, SendInsert
<1>5. CASE Claim(h)
  BY <1>5 DEF Claim, ClaimRequest, ClaimBill, ClaimSave
<1>6. CASE DeletePeriod(h)
  BY <1>6 DEF DeletePeriod, CountPaid, DeletePeriodRows
<1>7. CASE DeadlockVictim(h)
  BY <1>7 DEF DeadlockVictim
<1> QED BY <1>1, <1>2, <1>3, <1>4, <1>5, <1>6, <1>7
        DEF HandlerStep, Advance

LEMMA LockedRowsStep ==
  ASSUME IInv, NEW h \in Handler, HandlerStep(h)
  PROVE  LockedRowsStable'
<1>1. SUFFICES ASSUME NEW g \in Handler
               PROVE  /\ HoldsBill(g)' => bill'[onBill'[g]] # "none"
                      /\ pc'[g] \in SettlingPc => bill'[onBill'[g]] = "Unpaid"
                      /\ pc'[g] = "claimSave" =>
                           request'[onBill'[g]] = "pending"
  BY DEF LockedRowsStable, SettlingPc
<1>2. CASE g = h
  BY <1>2, OwnRowsChecked
<1>3. CASE g # h
  <2>1. pc'[g] = pc[g] /\ onBill'[g] = onBill[g] /\ HoldsBill(g)' = HoldsBill(g)
    BY <1>3, OthersStay DEF IInv, HoldsBill
  <2>2. HoldsBill(g) \/ pc[g] \in SettlingPc \/ pc[g] = "claimSave" =>
          onBill[g] \in Bill
    BY DEF IInv, LocalsAgree, BillPc, Pc, CallbackPc, HoldsBill, SettlingPc
  <2>3. pc[g] \in SettlingPc \/ pc[g] = "claimSave" => HoldsRequest(g)
    BY DEF SettlingPc, HoldsRequest
  <2> QED BY <1>3, <2>1, <2>2, <2>3, LockedRowsKept DEF IInv, LockedRowsStable
<1> QED BY <1>2, <1>3

LEMMA ReconciledStep ==
  ASSUME IInv, NEW h \in Handler, HandlerStep(h)
  PROVE  ReconciledImpliesPaid'
<1> USE DEF IInv, TypeOK, ReconciledImpliesPaid, RequestStatus, BillStatus
<1>1. CASE UNCHANGED tables
  BY <1>1 DEF tables
<1>2. CASE Writes(h)
  BY <1>2 DEF Writes, ReceiveCallback, FindDuplicate, CallbackCommit,
              RejectAudit, UpdateRequest, RequestAfter, CascadeRequest,
              SendUpdate, SendInsert, ClaimSave, DeletePeriodRows,
              RemoveBills, Fail, Continue, tables
<1> QED BY <1>1, <1>2, OnlyWritersWrite

\* What a callback's commit finds: its transfer was never credited before,
\* because the bill still exists and the payment log does not know it.
LEMMA CommitIsFirst ==
  ASSUME IInv, NEW h \in Handler, pc[h] = "callbackCommit",
         ~ DuplicateLog(TransferOf[onDelivery[h]])
  PROVE  /\ onDelivery[h] \in Delivery
         /\ audit[onDelivery[h]] = "received"
         /\ onBill[h] = TransferBill[TransferOf[onDelivery[h]]]
         /\ bill[onBill[h]] = "Unpaid"
         /\ TransferOf[onDelivery[h]] \notin Credited
<1>1. /\ onDelivery[h] \in Delivery
      /\ audit[onDelivery[h]] = "received"
      /\ onBill[h] = TransferBill[TransferOf[onDelivery[h]]]
  BY DEF IInv, LocalsAgree, CallbackPc
<1>2. bill[onBill[h]] = "Unpaid"
  BY DEF IInv, LockedRowsStable, SettlingPc
<1>3. \A e \in Delivery :
        audit[e] = "success" => TransferOf[e] # TransferOf[onDelivery[h]]
  BY <1>1, <1>2 DEF IInv, AuditMatchesLog, DuplicateLog
<1> QED BY <1>1, <1>2, <1>3 DEF Credited

LEMMA AuditStep ==
  ASSUME IInv, NEW h \in Handler, HandlerStep(h)
  PROVE  AuditMatchesLog' /\ TransferCreditedOnce'
<1> USE PaymentConstants
    DEF IInv, TypeOK, AuditMatchesLog, TransferCreditedOnce, Credited
<1>1. CASE UNCHANGED tables
  BY <1>1 DEF tables
<1>2. CASE CallbackCommit(h)
  BY <1>2, CommitIsFirst DEF CallbackCommit, At, Fail, tables, DuplicateLog
<1>3. CASE UpdateRequest(h)
  <2>1. bill[onBill[h]] # "none" /\ onBill[h] \in Bill
    BY <1>3 DEF UpdateRequest, At, LockedRowsStable, HoldsBill, LocalsAgree,
                BillPc, Pc
  <2> QED BY <1>3, <2>1 DEF UpdateRequest
<1>4. CASE CascadeRequest(h) \/ DeletePeriodRows(h)
  BY <1>4 DEF CascadeRequest, DeletePeriodRows, RemoveBills
<1>5. CASE \E d \in Delivery : ReceiveCallback(h, d)
  BY <1>5 DEF ReceiveCallback
<1>6. CASE FindDuplicate(h) \/ RejectAudit(h)
  <2>1. onDelivery[h] \in Delivery /\ audit[onDelivery[h]] = "received"
    BY <1>6 DEF FindDuplicate, RejectAudit, At, LocalsAgree, CallbackPc
  <2> QED BY <1>6, <2>1 DEF FindDuplicate, Logged, RejectAudit, Continue, tables
<1>7. CASE SendUpdate(h) \/ SendInsert(h) \/ ClaimSave(h)
  BY <1>7 DEF SendUpdate, SendInsert, ClaimSave, Fail, tables
<1> QED BY <1>1, <1>2, <1>3, <1>4, <1>5, <1>6, <1>7, OnlyWritersWrite
        DEF Writes

-----------------------------------------------------------------------------
(* The invariant.                                                          *)

LEMMA InitInv == Init => IInv
<1> SUFFICES ASSUME Init PROVE IInv
  OBVIOUS
<1> USE DEF Init
<1>1. TypeOK
  BY DEF TypeOK, BillStatus, RequestStatus, AuditResult, PeriodStatus, Pc, Op,
         Loaded
<1>2. LocalsAgree /\ DeliveriesApart
  BY DEF LocalsAgree, DeliveriesApart, BillPc, CallbackPc
<1>3. RequestLockExclusive /\ BillLockExclusive /\ LockedRowsStable
  BY DEF RequestLockExclusive, BillLockExclusive, LockedRowsStable,
         HoldsRequest, HoldsBill, SettlingPc
<1>4. ReconciledImpliesPaid /\ AuditMatchesLog /\ TransferCreditedOnce
  BY DEF ReconciledImpliesPaid, AuditMatchesLog, TransferCreditedOnce, Credited
<1> QED BY <1>1, <1>2, <1>3, <1>4 DEF IInv

\* Opening or closing a period touches nothing the invariant speaks of.
LEMMA SetPeriodInv ==
  ASSUME IInv, NEW status \in {"Active", "Closed"}, SetPeriodStatus(status)
  PROVE  IInv'
BY DEF SetPeriodStatus, locals, IInv, TypeOK, PeriodStatus, LocalsAgree,
       DeliveriesApart, RequestLockExclusive, BillLockExclusive,
       LockedRowsStable, HoldsRequest, HoldsBill, ReconciledImpliesPaid,
       AuditMatchesLog, TransferCreditedOnce, Credited

\* A crash releases every lock and leaves the tables as committed.
LEMMA CrashInv ==
  ASSUME IInv, Crash
  PROVE  IInv'
<1> USE DEF Crash, tables, IInv
<1>1. TypeOK'
  BY DEF TypeOK, Pc, Op, Loaded, RequestStatus
<1>2. LocalsAgree' /\ DeliveriesApart'
  BY DEF LocalsAgree, DeliveriesApart, BillPc, CallbackPc
<1>3. RequestLockExclusive' /\ BillLockExclusive' /\ LockedRowsStable'
  BY DEF RequestLockExclusive, BillLockExclusive, LockedRowsStable,
         HoldsRequest, HoldsBill, SettlingPc
<1>4. ReconciledImpliesPaid' /\ AuditMatchesLog' /\ TransferCreditedOnce'
  BY DEF ReconciledImpliesPaid, AuditMatchesLog, TransferCreditedOnce, Credited
<1> QED BY <1>1, <1>2, <1>3, <1>4

LEMMA NextInv == IInv /\ [Next]_vars => IInv'
<1> SUFFICES ASSUME IInv, [Next]_vars PROVE IInv'
  OBVIOUS
<1>1. ASSUME NEW h \in Handler, HandlerStep(h)
      PROVE  IInv'
  BY <1>1, TypeStep, LocalsStep, RequestLockStep, BillLockStep,
     LockedRowsStep, ReconciledStep, AuditStep DEF IInv
<1>2. CASE UNCHANGED vars
  BY <1>2 DEF vars, IInv, TypeOK, LocalsAgree, DeliveriesApart,
              RequestLockExclusive, BillLockExclusive, LockedRowsStable,
              HoldsRequest, HoldsBill, ReconciledImpliesPaid,
              AuditMatchesLog, TransferCreditedOnce, Credited
<1> QED BY <1>1, <1>2, SetPeriodInv, CrashInv DEF Next, HandlerStep

\* In every reachable state the tables, the handlers' locals and the row
\* locks agree.
THEOREM Invariance == Spec => []IInv
BY InitInv, NextInv, PTL DEF Spec

\* Every reachable state is well-typed.
THEOREM TypeCorrect == Spec => []TypeOK
<1>1. IInv => TypeOK
  BY DEF IInv
<1> QED BY <1>1, Invariance, PTL

\* A reconciled request belongs to a paid bill.
THEOREM ReconciledPaid == Spec => []ReconciledImpliesPaid
<1>1. IInv => ReconciledImpliesPaid
  BY DEF IInv
<1> QED BY <1>1, Invariance, PTL

\* However often the bank repeats a delivery, and whatever staff and students
\* do meanwhile, a transfer is credited once.
THEOREM CreditedOnce == Spec => []TransferCreditedOnce
<1>1. IInv => TransferCreditedOnce
  BY DEF IInv
<1> QED BY <1>1, Invariance, PTL

\* The callback audit trail and the payment log never disagree.
THEOREM AuditTrail == Spec => []AuditMatchesLog
<1>1. IInv => AuditMatchesLog
  BY DEF IInv
<1> QED BY <1>1, Invariance, PTL

-----------------------------------------------------------------------------
(* What a step may never do, and the ledger.                               *)

LEMMA AuditSuccess ==
  ASSUME IInv, [Next]_vars, NEW d \in Delivery,
         audit[d] # "success", audit'[d] = "success"
  PROVE  \E h \in Handler :
           /\ CallbackCommit(h)
           /\ d = onDelivery[h]
           /\ ~ DuplicateLog(TransferOf[d])
<1> USE DEF IInv, TypeOK
<1>1. UNCHANGED audit => FALSE
  OBVIOUS
<1>2. PICK h \in Handler : HandlerStep(h)
  BY <1>1 DEF Next, SetPeriodStatus, Crash, tables, vars, HandlerStep
<1>3. Writes(h)
  BY <1>1, <1>2, OnlyWritersWrite DEF tables
<1> QED BY <1>1, <1>3
        DEF Writes, ReceiveCallback, FindDuplicate, RejectAudit, Continue,
            CallbackCommit, UpdateRequest, CascadeRequest, SendUpdate,
            SendInsert, ClaimSave, DeletePeriodRows, Fail, tables

\* A callback never credits a transfer to a bill somebody else has settled.
THEOREM CallbackSafe == Spec => CallbackPaysUnpaid
<1>1. IInv /\ [Next]_vars => SettlesUnpaid
  <2> SUFFICES ASSUME IInv, [Next]_vars, NEW d \in Delivery,
                      audit[d] # "success", audit'[d] = "success"
               PROVE  bill[TransferBill[TransferOf[d]]] = "Unpaid"
    BY DEF SettlesUnpaid
  <2>1. PICK h \in Handler : /\ CallbackCommit(h)
                             /\ d = onDelivery[h]
                             /\ ~ DuplicateLog(TransferOf[d])
    BY AuditSuccess
  <2> QED BY <2>1, CommitIsFirst DEF CallbackCommit, At
<1> QED BY <1>1, Invariance, PTL DEF Spec, CallbackPaysUnpaid

\* A student's claim never takes back a settlement.
THEOREM ClaimSafe == Spec => ClaimNeverUnsettles
<1>1. IInv /\ [Next]_vars => KeepsSettlement
  <2> SUFFICES ASSUME IInv, [Next]_vars, NEW b \in Bill,
                      request[b] = "reconciled", request'[b] = "processing"
               PROVE  FALSE
    BY DEF KeepsSettlement
  <2> USE DEF IInv, TypeOK
  <2>1. PICK h \in Handler : HandlerStep(h)
    BY DEF Next, SetPeriodStatus, Crash, tables, vars, HandlerStep
  <2>2. Writes(h)
    BY <2>1, OnlyWritersWrite DEF tables
  <2>3. CASE ClaimSave(h)
    BY <2>3 DEF ClaimSave, At, LockedRowsStable
  <2> QED BY <2>2, <2>3
          DEF Writes, ReceiveCallback, FindDuplicate, RejectAudit, Continue,
              CallbackCommit, UpdateRequest, RequestAfter, CascadeRequest,
              SendUpdate, SendInsert, DeletePeriodRows, RemoveBills, Fail,
              tables
<1> QED BY <1>1, Invariance, PTL DEF Spec, ClaimNeverUnsettles

\* Without a change of a verdict to or from 'success', Credited stands.
LEMMA CreditedStands ==
  ASSUME TypeOK,
         \A d \in Delivery : audit[d] = "success" <=> audit'[d] = "success"
  PROVE  Credited' = Credited
BY DEF Credited

LEMMA LedgerStep ==
  ASSUME IInv, NEW h \in Handler, HandlerStep(h)
  PROVE  Ledger!LedgerNext \/ UNCHANGED <<bill, Credited>>
<1> USE DEF IInv, TypeOK, Ledger!LedgerNext
<1>1. CASE UNCHANGED tables
  BY <1>1 DEF tables, Credited
<1>2. CASE CallbackCommit(h) /\ ~ DuplicateLog(TransferOf[onDelivery[h]])
  <2> DEFINE t == TransferOf[onDelivery[h]]
  <2>1. /\ onDelivery[h] \in Delivery
        /\ t \in Transfer
        /\ bill[TransferBill[t]] = "Unpaid"
        /\ t \notin Credited
        /\ onBill[h] = TransferBill[t]
    <3>1. pc[h] = "callbackCommit"
      BY <1>2 DEF CallbackCommit, At
    <3>2. /\ onDelivery[h] \in Delivery
          /\ bill[onBill[h]] = "Unpaid"
          /\ t \notin Credited
          /\ onBill[h] = TransferBill[t]
      BY <1>2, <3>1, CommitIsFirst
    <3> QED BY <3>2, PaymentConstants
  <2>2. /\ bill' = [bill EXCEPT ![TransferBill[t]] = "Paid"]
        /\ audit' = [audit EXCEPT ![onDelivery[h]] = "success"]
    BY <1>2, <2>1 DEF CallbackCommit
  <2>3. Credited' = Credited \union {t}
    BY <2>1, <2>2 DEF Credited
  <2>4. Ledger!Credit(t)
    BY <2>1, <2>2, <2>3 DEF Ledger!Credit
  <2> QED BY <2>1, <2>4
<1>3. CASE CallbackCommit(h) /\ DuplicateLog(TransferOf[onDelivery[h]])
  BY <1>3 DEF CallbackCommit, Fail, tables, Credited
<1>4. CASE UpdateRequest(h)
  <2>1. onBill[h] \in Bill /\ bill[onBill[h]] # "none"
    BY <1>4 DEF UpdateRequest, At, LockedRowsStable, HoldsBill, LocalsAgree,
                BillPc, Pc
  <2>2. Credited' = Credited
    BY <1>4 DEF UpdateRequest, Credited
  <2>3. Ledger!Confirm(onBill[h]) \/ Ledger!Cancel(onBill[h])
    BY <1>4, <2>1, <2>2 DEF UpdateRequest, Ledger!Confirm, Ledger!Cancel
  <2> QED BY <2>1, <2>3
<1>5. CASE CascadeRequest(h)
  <2>1. onBill[h] \in Bill
    BY <1>5 DEF CascadeRequest, At, LocalsAgree, BillPc, Pc
  <2>2. Ledger!Withdraw({onBill[h]})
    BY <1>5 DEF CascadeRequest, RemoveBills, Ledger!Withdraw, Credited
  <2> QED BY <2>1, <2>2
<1>6. CASE DeletePeriodRows(h)
  <2>1. Ledger!Withdraw(Bill)
    BY <1>6 DEF DeletePeriodRows, RemoveBills, Ledger!Withdraw, Credited
  <2> QED BY <2>1
<1>7. CASE \/ \E d \in Delivery : ReceiveCallback(h, d)
           \/ FindDuplicate(h) \/ RejectAudit(h)
  <2>1. \A d \in Delivery : audit[d] = "success" <=> audit'[d] = "success"
    BY <1>7 DEF ReceiveCallback, FindDuplicate, RejectAudit, Continue, tables,
                At, LocalsAgree, CallbackPc
  <2>2. UNCHANGED bill
    BY <1>7 DEF ReceiveCallback, FindDuplicate, RejectAudit, Continue, tables
  <2> QED BY <2>1, <2>2, CreditedStands
<1>8. CASE SendUpdate(h) \/ SendInsert(h) \/ ClaimSave(h)
  BY <1>8 DEF SendUpdate, SendInsert, ClaimSave, Fail, tables, Credited
<1> QED BY <1>1, <1>2, <1>3, <1>4, <1>5, <1>6, <1>7, <1>8, OnlyWritersWrite
        DEF Writes

\* Requests, callbacks, locks, deadlocks and crashes implement the ledger: a
\* transfer is credited at most once, to an unpaid bill.
THEOREM Refinement == Spec => ImplementsLedger
<1>1. Init => Ledger!LedgerInit
  BY DEF Init, Ledger!LedgerInit, Credited
<1>2. IInv /\ [Next]_vars => [Ledger!LedgerNext]_(Ledger!ledgerVars)
  <2> SUFFICES ASSUME IInv, [Next]_vars
               PROVE  Ledger!LedgerNext \/ UNCHANGED <<bill, Credited>>
    BY DEF Ledger!ledgerVars
  <2>1. ASSUME NEW h \in Handler, HandlerStep(h)
        PROVE  Ledger!LedgerNext \/ UNCHANGED <<bill, Credited>>
    BY <2>1, LedgerStep
  <2>2. CASE UNCHANGED <<bill, audit>>
    BY <2>2 DEF Credited
  <2> QED BY <2>1, <2>2
          DEF Next, HandlerStep, SetPeriodStatus, Crash, tables, vars
<1> QED BY <1>1, <1>2, Invariance, PTL
        DEF Spec, ImplementsLedger, Ledger!LedgerSpec

-----------------------------------------------------------------------------
(* Receipt codes are computed from a maximum that other transactions may   *)
(* move, and the unique index refuses the loser.                           *)

\* The handlers whose UPDATE of a bill has passed the unique index.
Writing(h) == pc[h] \in {"callbackCommit", "updateRequest"}

\* Nobody else has, or is about to commit, the code a handler has written.
WrittenCodeFree ==
  \A h \in Handler : Writing(h) /\ code[h] # 0 =>
    /\ \A c \in Bill \ {onBill[h]} : receipt[c] # code[h]
    /\ \A g \in Handler \ {h} : Writing(g) => code[g] # code[h]

\* A handler that settles without a new code relies on one it has seen.
Relies(h) ==
  \/ pc[h] = "findPeriod" /\ loaded[h] = "receipted"
  \/ /\ pc[h] \in {"callbackUpdate", "callbackCommit"}
     /\ code[h] = 0
  \/ /\ pc[h] \in {"updateBill", "updateRequest"}
     /\ op[h] = "confirm" /\ code[h] = 0

SeenReceiptStays ==
  \A h \in Handler :
    /\ pc[h] = "findPeriod" => loaded[h] \in {"unreceipted", "receipted"}
    /\ Relies(h) => receipt[onBill[h]] # 0 \/ bill[onBill[h]] = "none"

ReceiptInv ==
  /\ IInv
  /\ PaidHasOwnReceipt
  /\ WrittenCodeFree
  /\ SeenReceiptStays

-----------------------------------------------------------------------------
LEMMA OthersKeepCode ==
  ASSUME TypeOK, NEW h \in Handler, HandlerStep(h), NEW g \in Handler, g # h
  PROVE  code'[g] = code[g] /\ loaded'[g] = loaded[g]
<1> USE DEF TypeOK, At, GoTo, Return, Fail, Continue, Start, WriteBill,
            CreateReceiptCode
<1>1. CASE Arrive(h)
  BY <1>1 DEF Arrive, ReceiveCallback, StartOrder, StartSend, StartClaim,
              StartDeletePeriod
<1>2. CASE Callback(h)
  BY <1>2 DEF Callback, RefuseCallback, AcceptCallback, FindDuplicate,
              LockRequest, CheckBill, CallbackReceipt, CallbackUpdate,
              CallbackCommit, RejectAudit
<1>3. CASE Order(h)
  BY <1>3 DEF Order, FindOrder, FindPeriod, OrderReceipt, UpdateBill,
              OrderGone, UpdateRequest, DeleteBill, CascadeRequest
<1>4. CASE Send(h)
  BY <1>4 DEF Send, SendBill, SendRequest, SendLoad, SendUpdate, SendInsert
<1>5. CASE Claim(h)
  BY <1>5 DEF Claim, ClaimRequest, ClaimBill, ClaimSave
<1>6. CASE DeletePeriod(h)
  BY <1>6 DEF DeletePeriod, CountPaid, DeletePeriodRows
<1>7. CASE DeadlockVictim(h)
  BY <1>7 DEF DeadlockVictim
<1> QED BY <1>1, <1>2, <1>3, <1>4, <1>5, <1>6, <1>7
        DEF HandlerStep, Advance

\* The only writes of receipt codes.
LEMMA ReceiptWrites ==
  ASSUME IInv, NEW h \in Handler, HandlerStep(h)
  PROVE  \/ UNCHANGED <<bill, receipt>>
         \/ /\ Writing(h)
            /\ onBill[h] \in Bill
            /\ bill[onBill[h]] # "none"
            /\ receipt' = WrittenReceipt(h)
            /\ \/ /\ pc[h] = "callbackCommit" \/ op[h] = "confirm"
                  /\ bill' = [bill EXCEPT ![onBill[h]] = "Paid"]
               \/ /\ pc[h] = "updateRequest" /\ op[h] # "confirm"
                  /\ bill' = [bill EXCEPT ![onBill[h]] = "Unpaid"]
         \/ \E B \in SUBSET Bill : RemoveBills(B)
<1> USE DEF IInv
<1>1. CASE UNCHANGED tables
  BY <1>1 DEF tables
<1>2. CASE CallbackCommit(h) \/ UpdateRequest(h)
  <2>1. Writing(h) /\ HoldsBill(h) /\ onBill[h] \in Bill
    BY <1>2 DEF CallbackCommit, UpdateRequest, Writing, HoldsBill, At,
                LocalsAgree, BillPc, Pc, CallbackPc
  <2>2. bill[onBill[h]] # "none"
    BY <2>1 DEF LockedRowsStable
  <2> QED BY <1>2, <2>1, <2>2
          DEF CallbackCommit, UpdateRequest, Fail, tables, At
<1>3. CASE CascadeRequest(h)
  <2>1. onBill[h] \in Bill
    BY <1>3 DEF CascadeRequest, At, LocalsAgree, BillPc, Pc
  <2> QED BY <1>3, <2>1 DEF CascadeRequest
<1>4. CASE DeletePeriodRows(h)
  BY <1>4 DEF DeletePeriodRows
<1>5. CASE \/ \E d \in Delivery : ReceiveCallback(h, d)
           \/ FindDuplicate(h) \/ RejectAudit(h)
           \/ SendUpdate(h) \/ SendInsert(h) \/ ClaimSave(h)
  BY <1>5 DEF ReceiveCallback, FindDuplicate, RejectAudit, Continue,
              SendUpdate, SendInsert, ClaimSave, Fail, tables
<1> QED BY <1>1, <1>2, <1>3, <1>4, <1>5, OnlyWritersWrite DEF Writes

LEMMA OwnReceiptStep ==
  ASSUME ReceiptInv, NEW h \in Handler, HandlerStep(h)
  PROVE  PaidHasOwnReceipt'
<1> USE DEF ReceiptInv, IInv, TypeOK, PaidHasOwnReceipt
<1>1. CASE UNCHANGED <<bill, receipt>>
  BY <1>1
<1>2. CASE \E B \in SUBSET Bill : RemoveBills(B)
  BY <1>2 DEF RemoveBills
<1>3. ASSUME Writing(h), onBill[h] \in Bill, bill[onBill[h]] # "none",
             receipt' = WrittenReceipt(h),
             \/ /\ pc[h] = "callbackCommit" \/ op[h] = "confirm"
                /\ bill' = [bill EXCEPT ![onBill[h]] = "Paid"]
             \/ /\ pc[h] = "updateRequest" /\ op[h] # "confirm"
                /\ bill' = [bill EXCEPT ![onBill[h]] = "Unpaid"]
      PROVE  PaidHasOwnReceipt'
  <2>1. CASE code[h] = 0
    <3>1. receipt' = receipt
      BY <1>3, <2>1 DEF WrittenReceipt
    <3>2. bill'[onBill[h]] = "Paid" => receipt[onBill[h]] # 0
      BY <1>3, <2>1 DEF Writing, SeenReceiptStays, Relies
    <3> QED BY <1>3, <3>1, <3>2
  <2>2. CASE code[h] # 0
    <3>1. receipt' = [receipt EXCEPT ![onBill[h]] = code[h]]
      BY <1>3, <2>2 DEF WrittenReceipt
    <3>2. \A c \in Bill \ {onBill[h]} : receipt[c] # code[h]
      BY <1>3, <2>2 DEF WrittenCodeFree
    <3> QED BY <1>3, <2>2, <3>1, <3>2
  <2> QED BY <2>1, <2>2
<1> QED BY <1>1, <1>2, <1>3, ReceiptWrites

\* A handler that starts writing has waited for any handler writing the same
\* code, and the unique index has let its code pass.
LEMMA WritingStarts ==
  ASSUME IInv, NEW h \in Handler, HandlerStep(h), Writing(h)'
  PROVE  /\ code'[h] = code[h] /\ onBill'[h] = onBill[h]
         /\ UNCHANGED receipt
         /\ AwaitsBill(h) /\ Unblocked(h)
         /\ code[h] # 0 => ~ ReceiptTaken(h)
<1> USE DEF IInv, TypeOK, Writing, AwaitsBill, At, GoTo, Return, Fail,
            Continue, Start, WriteBill, CreateReceiptCode, tables
<1>1. CASE Arrive(h)
  BY <1>1 DEF Arrive, ReceiveCallback, StartOrder, StartSend, StartClaim,
              StartDeletePeriod
<1>2. CASE Callback(h)
  BY <1>2 DEF Callback, RefuseCallback, AcceptCallback, FindDuplicate,
              LockRequest, CheckBill, CallbackReceipt, CallbackUpdate,
              CallbackCommit, RejectAudit
<1>3. CASE Order(h)
  BY <1>3 DEF Order, FindOrder, FindPeriod, AfterFindPeriod, OrderReceipt,
              UpdateBill, OrderGone, UpdateRequest, DeleteBill,
              CascadeRequest
<1>4. CASE Send(h)
  BY <1>4 DEF Send, SendBill, SendRequest, SendLoad, SendUpdate, SendInsert
<1>5. CASE Claim(h)
  BY <1>5 DEF Claim, ClaimRequest, ClaimBill, ClaimSave
<1>6. CASE DeletePeriod(h)
  BY <1>6 DEF DeletePeriod, CountPaid, DeletePeriodRows
<1>7. CASE DeadlockVictim(h)
  BY <1>7 DEF DeadlockVictim
<1> QED BY <1>1, <1>2, <1>3, <1>4, <1>5, <1>6, <1>7
        DEF HandlerStep, Advance

LEMMA WrittenCodeStep ==
  ASSUME ReceiptInv, NEW h \in Handler, HandlerStep(h)
  PROVE  WrittenCodeFree'
<1> USE DEF ReceiptInv
<1>1. SUFFICES ASSUME NEW f \in Handler, Writing(f)', code'[f] # 0
               PROVE  /\ \A c \in Bill \ {onBill'[f]} : receipt'[c] # code'[f]
                      /\ \A g \in Handler \ {f} :
                           Writing(g)' => code'[g] # code'[f]
  BY DEF WrittenCodeFree, Writing
<1>2. ASSUME NEW k \in Handler \ {h}
      PROVE  /\ code'[k] = code[k] /\ onBill'[k] = onBill[k]
             /\ Writing(k)' = Writing(k)
  BY <1>2, OthersStay, OthersKeepCode DEF IInv, Writing
<1>3. ASSUME NEW k \in Handler \ {h}, Writing(h)', Writing(k)', code'[h] # 0
      PROVE  code'[k] # code'[h]
  <2>1. Writing(k) /\ HoldsBill(k) /\ code'[k] = code[k]
    BY <1>2, <1>3 DEF Writing, HoldsBill
  <2> QED BY <1>3, <2>1, WritingStarts DEF Unblocked, Blockers
<1>4. CASE f = h
  <2>1. \A c \in Bill \ {onBill'[h]} : receipt'[c] # code'[h]
    BY <1>1, <1>4, WritingStarts DEF ReceiptTaken
  <2> QED BY <1>1, <1>3, <1>4, <2>1
<1>5. CASE f # h
  <2>1. Writing(f) /\ code[f] # 0
    BY <1>1, <1>2, <1>5
  <2>2. /\ \A c \in Bill \ {onBill[f]} : receipt[c] # code[f]
        /\ \A g \in Handler \ {f} : Writing(g) => code[g] # code[f]
    BY <2>1 DEF WrittenCodeFree
  <2>3. \A c \in Bill \ {onBill[f]} : receipt'[c] # code[f]
    <3>1. CASE receipt' = WrittenReceipt(h) /\ Writing(h) /\ onBill[h] \in Bill
      BY <1>5, <2>2, <3>1 DEF WrittenReceipt, IInv, TypeOK
    <3>2. CASE \E B \in SUBSET Bill : RemoveBills(B)
      BY <2>1, <2>2, <3>2 DEF RemoveBills
    <3> QED BY <2>2, <3>1, <3>2, ReceiptWrites
  <2>4. \A g \in Handler \ {f} : Writing(g)' => code'[g] # code'[f]
    <3>1. CASE Writing(h)'
      BY <1>1, <1>2, <1>5, <2>1, <2>2, <3>1, WritingStarts, <1>3
    <3>2. CASE ~ Writing(h)'
      BY <1>2, <1>5, <2>2, <3>2
    <3> QED BY <3>1, <3>2
  <2> QED BY <1>2, <1>5, <2>3, <2>4
<1> QED BY <1>4, <1>5

\* A receipt disappears only with its bill, and no deleted bill comes back.
LEMMA ReceiptLost ==
  ASSUME ReceiptInv, NEW h \in Handler, HandlerStep(h), NEW b \in Bill,
         receipt[b] # 0 \/ bill[b] = "none"
  PROVE  receipt'[b] # 0 \/ bill'[b] = "none"
<1> USE DEF ReceiptInv, IInv, TypeOK
<1>1. CASE Writing(h) /\ receipt' = WrittenReceipt(h)
             /\ onBill[h] \in Bill /\ bill[onBill[h]] # "none"
             /\ \E s \in {"Paid", "Unpaid"} :
                  bill' = [bill EXCEPT ![onBill[h]] = s]
  BY <1>1 DEF WrittenReceipt
<1>2. CASE \E B \in SUBSET Bill : RemoveBills(B)
  BY <1>2 DEF RemoveBills
<1> QED BY <1>1, <1>2, ReceiptWrites

\* The stepping handler comes to rely on a receipt only after seeing it.
LEMMA OwnReliance ==
  ASSUME ReceiptInv, NEW h \in Handler, HandlerStep(h)
  PROVE  /\ pc'[h] = "findPeriod" => loaded'[h] \in {"unreceipted", "receipted"}
         /\ Relies(h)' =>
              /\ onBill'[h] = onBill[h] /\ onBill[h] \in Bill
              /\ receipt[onBill[h]] # 0 \/ bill[onBill[h]] = "none"
<1> USE DEF ReceiptInv, IInv, TypeOK, LocalsAgree, BillPc, Pc, CallbackPc,
            SeenReceiptStays, Relies, At, GoTo, Return, Fail, Continue, Start,
            WriteBill, CreateReceiptCode
<1>1. CASE Arrive(h)
  BY <1>1 DEF Arrive, ReceiveCallback, StartOrder, StartSend, StartClaim,
              StartDeletePeriod
<1>2. CASE Callback(h)
  BY <1>2, NextReceiptFresh
     DEF Callback, RefuseCallback, AcceptCallback, FindDuplicate,
         LockRequest, CheckBill, CallbackReceipt, CallbackUpdate,
         CallbackCommit, RejectAudit
<1>3. CASE Order(h)
  BY <1>3, NextReceiptFresh
     DEF Order, FindOrder, FindPeriod, AfterFindPeriod, OrderReceipt,
         UpdateBill, OrderGone, UpdateRequest, DeleteBill, CascadeRequest
<1>4. CASE Send(h)
  BY <1>4 DEF Send, SendBill, SendRequest, SendLoad, SendUpdate, SendInsert
<1>5. CASE Claim(h)
  BY <1>5 DEF Claim, ClaimRequest, ClaimBill, ClaimSave
<1>6. CASE DeletePeriod(h)
  BY <1>6 DEF DeletePeriod, CountPaid, DeletePeriodRows
<1>7. CASE DeadlockVictim(h)
  BY <1>7 DEF DeadlockVictim
<1> QED BY <1>1, <1>2, <1>3, <1>4, <1>5, <1>6, <1>7
        DEF HandlerStep, Advance

LEMMA SeenReceiptStep ==
  ASSUME ReceiptInv, NEW h \in Handler, HandlerStep(h)
  PROVE  SeenReceiptStays'
<1>1. SUFFICES ASSUME NEW g \in Handler
               PROVE  /\ pc'[g] = "findPeriod" =>
                           loaded'[g] \in {"unreceipted", "receipted"}
                      /\ Relies(g)' =>
                           \/ receipt'[onBill'[g]] # 0
                           \/ bill'[onBill'[g]] = "none"
  BY DEF SeenReceiptStays, Relies
<1>2. CASE g = h
  BY <1>2, OwnReliance, ReceiptLost
<1>3. CASE g # h
  <2>1. /\ pc'[g] = pc[g] /\ op'[g] = op[g] /\ onBill'[g] = onBill[g]
        /\ code'[g] = code[g] /\ loaded'[g] = loaded[g]
    BY <1>3, OthersStay, OthersKeepCode DEF ReceiptInv, IInv
  <2>2. Relies(g)' = Relies(g)
    BY <2>1 DEF Relies
  <2>3. Relies(g) => onBill[g] \in Bill
    BY DEF Relies, ReceiptInv, IInv, LocalsAgree, BillPc, Pc, CallbackPc
  <2> QED BY <2>1, <2>2, <2>3, ReceiptLost DEF ReceiptInv, SeenReceiptStays
<1> QED BY <1>2, <1>3

-----------------------------------------------------------------------------
LEMMA ReceiptInit == Init => ReceiptInv
<1> SUFFICES ASSUME Init PROVE ReceiptInv
  OBVIOUS
<1>1. PaidHasOwnReceipt
  BY DEF Init, PaidHasOwnReceipt
<1>2. WrittenCodeFree /\ SeenReceiptStays
  BY DEF Init, WrittenCodeFree, Writing, SeenReceiptStays, Relies
<1> QED BY <1>1, <1>2, InitInv DEF ReceiptInv

LEMMA ReceiptNext == ReceiptInv /\ [Next]_vars => ReceiptInv'
<1> SUFFICES ASSUME ReceiptInv, [Next]_vars PROVE ReceiptInv'
  OBVIOUS
<1>1. IInv'
  BY NextInv DEF ReceiptInv
<1>2. ASSUME NEW h \in Handler, HandlerStep(h)
      PROVE  ReceiptInv'
  BY <1>1, <1>2, OwnReceiptStep, WrittenCodeStep, SeenReceiptStep
     DEF ReceiptInv
<1>3. CASE UNCHANGED <<bill, receipt, pc, op, onBill, code, loaded>>
  BY <1>1, <1>3 DEF ReceiptInv, PaidHasOwnReceipt, WrittenCodeFree, Writing,
                    SeenReceiptStays, Relies
<1>4. CASE Crash
  <2>1. \A h \in Handler : pc'[h] = "idle"
    BY <1>4 DEF Crash
  <2>2. UNCHANGED <<bill, receipt>>
    BY <1>4 DEF Crash, tables
  <2>3. PaidHasOwnReceipt'
    BY <2>2 DEF ReceiptInv, PaidHasOwnReceipt
  <2>4. WrittenCodeFree' /\ SeenReceiptStays'
    BY <2>1 DEF WrittenCodeFree, Writing, SeenReceiptStays, Relies
  <2> QED BY <1>1, <2>3, <2>4 DEF ReceiptInv
<1> QED BY <1>2, <1>3, <1>4
        DEF Next, HandlerStep, SetPeriodStatus, locals, vars

\* A paid bill has a receipt code, and no other bill has the same one.
THEOREM OwnReceipt == Spec => []PaidHasOwnReceipt
<1>1. ReceiptInv => PaidHasOwnReceipt
  BY DEF ReceiptInv
<1> QED BY <1>1, ReceiptInit, ReceiptNext, PTL DEF Spec

-----------------------------------------------------------------------------
(* A reissued payment request is the only write of the request that does   *)
(* not go together with the bill.                                          *)

SendPc == {"sendBill", "sendRequest", "sendLoad", "sendUpdate", "sendInsert"}

NobodySends == \A h \in Handler : pc[h] \notin SendPc

\* A claim goes on only for an unpaid bill, and holds the request meanwhile.
ClaimedUnpaid ==
  \A h \in Handler : pc[h] = "claimSave" => bill[onBill[h]] = "Unpaid"

InStepInv == IInv /\ NobodySends /\ ClaimedUnpaid /\ PaidMatchesReconciled

LEMMA NobodySendsStep ==
  ASSUME "send" \notin Operations, IInv, NobodySends,
         NEW h \in Handler, HandlerStep(h)
  PROVE  NobodySends'
<1>1. pc'[h] \notin SendPc
  <2> USE DEF IInv, TypeOK, NobodySends, SendPc, At, GoTo, Return, Fail,
              Continue, Start, WriteBill, CreateReceiptCode
  <2>1. CASE Arrive(h)
    BY <2>1 DEF Arrive, ReceiveCallback, StartOrder, StartSend, StartClaim,
                StartDeletePeriod
  <2>2. CASE Callback(h)
    BY <2>2 DEF Callback, RefuseCallback, AcceptCallback, FindDuplicate,
                LockRequest, CheckBill, CallbackReceipt, CallbackUpdate,
                CallbackCommit, RejectAudit
  <2>3. CASE Order(h)
    BY <2>3 DEF Order, FindOrder, FindPeriod, AfterFindPeriod, OrderReceipt,
                UpdateBill, OrderGone, UpdateRequest, DeleteBill,
                CascadeRequest
  <2>4. CASE Send(h)
    BY <2>4 DEF Send, SendBill, SendRequest, SendLoad, SendUpdate, SendInsert
  <2>5. CASE Claim(h)
    BY <2>5 DEF Claim, ClaimRequest, ClaimBill, ClaimSave
  <2>6. CASE DeletePeriod(h)
    BY <2>6 DEF DeletePeriod, CountPaid, DeletePeriodRows
  <2>7. CASE DeadlockVictim(h)
    BY <2>7 DEF DeadlockVictim
  <2> QED BY <2>1, <2>2, <2>3, <2>4, <2>5, <2>6, <2>7
          DEF HandlerStep, Advance
<1> QED BY <1>1, OthersStay DEF IInv, NobodySends

\* ClaimBill looks at the bill before the claim goes on.
LEMMA OwnClaim ==
  ASSUME IInv, NEW h \in Handler, HandlerStep(h), pc'[h] = "claimSave"
  PROVE  bill'[onBill'[h]] = "Unpaid"
<1> USE DEF IInv, TypeOK, At, GoTo, Return, Fail, Continue, Start, WriteBill,
            CreateReceiptCode, tables
<1>1. CASE Claim(h)
  BY <1>1 DEF Claim, ClaimRequest, ClaimBill, ClaimSave
<1>2. CASE Arrive(h)
  BY <1>2 DEF Arrive, ReceiveCallback, StartOrder, StartSend, StartClaim,
              StartDeletePeriod
<1>3. CASE Callback(h)
  BY <1>3 DEF Callback, RefuseCallback, AcceptCallback, FindDuplicate,
              LockRequest, CheckBill, CallbackReceipt, CallbackUpdate,
              CallbackCommit, RejectAudit
<1>4. CASE Order(h)
  BY <1>4 DEF Order, FindOrder, FindPeriod, AfterFindPeriod, OrderReceipt,
              UpdateBill, OrderGone, UpdateRequest, DeleteBill,
              CascadeRequest
<1>5. CASE Send(h)
  BY <1>5 DEF Send, SendBill, SendRequest, SendLoad, SendUpdate, SendInsert
<1>6. CASE DeletePeriod(h)
  BY <1>6 DEF DeletePeriod, CountPaid, DeletePeriodRows
<1>7. CASE DeadlockVictim(h)
  BY <1>7 DEF DeadlockVictim
<1> QED BY <1>1, <1>2, <1>3, <1>4, <1>5, <1>6, <1>7
        DEF HandlerStep, Advance

LEMMA ClaimedUnpaidStep ==
  ASSUME InStepInv, NEW h \in Handler, HandlerStep(h)
  PROVE  ClaimedUnpaid'
<1>1. SUFFICES ASSUME NEW g \in Handler, pc'[g] = "claimSave"
               PROVE  bill'[onBill'[g]] = "Unpaid"
  BY DEF ClaimedUnpaid
<1>2. CASE g = h
  BY <1>1, <1>2, OwnClaim DEF InStepInv
<1>3. CASE g # h
  <2>1. pc[g] = "claimSave" /\ onBill'[g] = onBill[g]
    BY <1>1, <1>3, OthersStay DEF InStepInv, IInv
  <2>2. HoldsRequest(g) /\ onBill[g] \in Bill
    BY <2>1 DEF HoldsRequest, InStepInv, IInv, LocalsAgree, BillPc, Pc
  <2> QED BY <1>3, <2>1, <2>2, LockedRowsKept DEF InStepInv, ClaimedUnpaid
<1> QED BY <1>2, <1>3

LEMMA PaidMatchesStep ==
  ASSUME InStepInv, NEW h \in Handler, HandlerStep(h)
  PROVE  PaidMatchesReconciled'
<1> USE DEF InStepInv, IInv, TypeOK, PaidMatchesReconciled, RequestStatus,
            BillStatus, At
<1>1. CASE UNCHANGED tables
  BY <1>1 DEF tables
<1>2. CASE ClaimSave(h)
  BY <1>2 DEF ClaimSave, ClaimedUnpaid
<1>3. CASE SendUpdate(h) \/ SendInsert(h)
  BY <1>3 DEF SendUpdate, SendInsert, NobodySends, SendPc
<1>4. CASE UpdateRequest(h)
  BY <1>4 DEF UpdateRequest, RequestAfter
<1>5. CASE CallbackCommit(h)
  BY <1>5 DEF CallbackCommit, Fail, tables
<1>6. CASE CascadeRequest(h) \/ DeletePeriodRows(h)
  BY <1>6 DEF CascadeRequest, DeletePeriodRows, RemoveBills
<1>7. CASE \/ \E d \in Delivery : ReceiveCallback(h, d)
           \/ FindDuplicate(h) \/ RejectAudit(h)
  BY <1>7 DEF ReceiveCallback, FindDuplicate, RejectAudit, Continue, tables
<1> QED BY <1>1, <1>2, <1>3, <1>4, <1>5, <1>6, <1>7, OnlyWritersWrite
        DEF Writes

LEMMA InStepNext ==
  ASSUME "send" \notin Operations, InStepInv, [Next]_vars
  PROVE  InStepInv'
<1>1. IInv'
  BY NextInv DEF InStepInv
<1>2. ASSUME NEW h \in Handler, HandlerStep(h)
      PROVE  InStepInv'
  BY <1>1, <1>2, NobodySendsStep, ClaimedUnpaidStep, PaidMatchesStep
     DEF InStepInv
<1>3. CASE UNCHANGED <<bill, request, pc, onBill>>
  BY <1>1, <1>3 DEF InStepInv, NobodySends, ClaimedUnpaid,
                    PaidMatchesReconciled
<1>4. CASE Crash
  BY <1>1, <1>4 DEF Crash, tables, InStepInv, NobodySends, SendPc,
                    ClaimedUnpaid, PaidMatchesReconciled
<1> QED BY <1>2, <1>3, <1>4
        DEF Next, HandlerStep, SetPeriodStatus, locals, vars

\* Where no request is reissued, a bill with a request is paid exactly when
\* the request is reconciled.
THEOREM InStep ==
  ASSUME "send" \notin Operations
  PROVE  Spec => []PaidMatchesReconciled
<1>1. Init => InStepInv
  <2> SUFFICES ASSUME Init PROVE InStepInv
    OBVIOUS
  <2>1. NobodySends /\ ClaimedUnpaid
    BY DEF Init, NobodySends, SendPc, ClaimedUnpaid
  <2>2. PaidMatchesReconciled
    BY DEF Init, PaidMatchesReconciled
  <2> QED BY <2>1, <2>2, InitInv DEF InStepInv
<1>2. InStepInv /\ [Next]_vars => InStepInv'
  BY InStepNext
<1>3. InStepInv => PaidMatchesReconciled
  BY DEF InStepInv
<1> QED BY <1>1, <1>2, <1>3, PTL DEF Spec
==============================================================================
