-------------------------- MODULE SettlementLedger --------------------------
(***************************************************************************)
(* What the tuition payment subsystem promises about money, with requests, *)
(* handlers, row locks and callbacks left out: a bank transfer is credited *)
(* at most once, and only to a bill that was unpaid at that moment.  Staff *)
(* may confirm a bill by hand, cancel a confirmation or withdraw bills.    *)
(***************************************************************************)
CONSTANTS
  Bill,          \* student_monthly_bills rows
  Transfer,      \* bank transfers, identified by external_transaction_id
  TransferBill   \* the bill each transfer refers to

VARIABLES
  bill,          \* status of each bill; "none" once the row is deleted
  credited       \* transfers that settled a bill

ledgerVars == <<bill, credited>>

LedgerInit ==
  /\ bill = [b \in Bill |-> "Unpaid"]
  /\ credited = {}

Credit(t) ==
  /\ t \notin credited
  /\ bill[TransferBill[t]] = "Unpaid"
  /\ bill' = [bill EXCEPT ![TransferBill[t]] = "Paid"]
  /\ credited' = credited \union {t}

Confirm(b) ==
  /\ bill[b] # "none"
  /\ bill' = [bill EXCEPT ![b] = "Paid"]
  /\ UNCHANGED credited

Cancel(b) ==
  /\ bill[b] # "none"
  /\ bill' = [bill EXCEPT ![b] = "Unpaid"]
  /\ UNCHANGED credited

Withdraw(B) ==
  /\ bill' = [b \in Bill |-> IF b \in B THEN "none" ELSE bill[b]]
  /\ UNCHANGED credited

LedgerNext ==
  \/ \E t \in Transfer : Credit(t)
  \/ \E b \in Bill : Confirm(b) \/ Cancel(b)
  \/ \E B \in SUBSET Bill : Withdraw(B)

LedgerSpec == LedgerInit /\ [][LedgerNext]_ledgerVars
=============================================================================
