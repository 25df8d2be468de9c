-------------------------- MODULE MCTuitionPayment --------------------------
(* Model values and instances for TLC.                                     *)
EXTENDS TuitionPayment, TLC

CONSTANTS b1, b2, t1, t2, d1, d2, d3, h1, h2, h3

\* One bill: t1 is delivered twice, t2 pays the same bill again.
OneBill == {b1}
TwoTransfers == {t1, t2}
OneBillTransfers == [t \in TwoTransfers |-> b1]
ThreeDeliveries == {d1, d2, d3}
T1TwiceT2Once == [d \in ThreeDeliveries |-> IF d = d3 THEN t2 ELSE t1]
TwoDeliveries == {d1, d2}
OneEach == [d \in TwoDeliveries |-> IF d = d1 THEN t1 ELSE t2]
OneDelivery == {d1}
T1Once == [d \in OneDelivery |-> t1]
OnlyT1 == {t1}
T1OnB1 == [t \in OnlyT1 |-> b1]

\* Two bills, one transfer for each.
TwoBills == {b1, b2}
TransferPerBill == [t \in TwoTransfers |-> IF t = t1 THEN b1 ELSE b2]

HandlerSymmetry == Permutations(Handler)

AllOperations == Op \union {"setPeriod", "crash"}
SettlingOperations == {"callback", "confirm", "cancel", "delete"}
CallbackAndPeriod == {"callback", "setPeriod"}
WithoutCrash == AllOperations \ {"crash"}
=============================================================================
