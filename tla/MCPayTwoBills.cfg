\* Two bills paid at the same time compete for receipt codes.  Nothing reissues a
\* request, so bill and request stay in step.
CONSTANTS
  b1 = b1  b2 = b2  t1 = t1  t2 = t2  d1 = d1  d2 = d2  d3 = d3
  h1 = h1  h2 = h2  h3 = h3
  NoBill = NoBill
  NoDelivery = NoDelivery
  Bill <- TwoBills
  Transfer <- TwoTransfers
  TransferBill <- TransferPerBill
  Matching <- TwoTransfers
  Delivery <- TwoDeliveries
  TransferOf <- OneEach
  Handler = {h1, h2}
  Operations <- SettlingOperations
SYMMETRY HandlerSymmetry
SPECIFICATION Spec
INVARIANTS
  PaidHasOwnReceipt
  PaidMatchesReconciled
PROPERTIES
  ImplementsLedger
