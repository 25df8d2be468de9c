\* One bill, every operation, two concurrent requests, three deliveries.
CONSTANTS
  b1 = b1  b2 = b2  t1 = t1  t2 = t2  d1 = d1  d2 = d2  d3 = d3
  h1 = h1  h2 = h2  h3 = h3
  NoBill = NoBill
  NoDelivery = NoDelivery
  Bill <- OneBill
  Transfer <- TwoTransfers
  TransferBill <- OneBillTransfers
  Matching <- TwoTransfers
  Delivery <- ThreeDeliveries
  TransferOf <- T1TwiceT2Once
  Handler = {h1, h2}
  Operations <- AllOperations
SYMMETRY HandlerSymmetry
SPECIFICATION Spec
INVARIANTS
  TypeOK
  ReconciledImpliesPaid
  TransferCreditedOnce
  AuditMatchesLog
PROPERTIES
  CallbackPaysUnpaid
  ClaimNeverUnsettles
