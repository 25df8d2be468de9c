\* Violation: a callback settles a bill of a closed period.
CONSTANTS
  b1 = b1  b2 = b2  t1 = t1  t2 = t2  d1 = d1  d2 = d2  d3 = d3
  h1 = h1  h2 = h2  h3 = h3
  NoBill = NoBill
  NoDelivery = NoDelivery
  Bill <- OneBill
  Transfer <- OnlyT1
  TransferBill <- T1OnB1
  Matching <- OnlyT1
  Delivery <- OneDelivery
  TransferOf <- T1Once
  Handler = {h1, h2}
  Operations <- CallbackAndPeriod
SYMMETRY HandlerSymmetry
SPECIFICATION Spec
PROPERTIES
  ClosedPeriodFrozen
