\* One service after another, each on a small instance of its own tables.
CONSTANTS
  Scene = {"prices", "bills", "enrolment", "clock", "leads", "profiles",
           "reports", "accounts"}
  PriceRate = {m1, m2}
  PriceDate = {1, 2}
  PriceId = {1, 2}
  Amount = {0, 1}
  LastDay = 2
  LegacyPrices <- OldPrices
  SourceId = {1, 2, 3}
  Owner = {"o1", "o2"}
  CommissionOwner = {"o2"}
  Class = {"c1", "c2"}
  Rate = {5, 7}
  Revenue = {150000001}
  Adjustment <- Amounts
  h1 = h1  h2 = h2  c1 = c1  c2 = c2  m1 = m1  m2 = m2
  ClassRow = {c1, c2}
  StudentRow = {m1, m2}
  Unlimited = Unlimited
  MaxSize = {Unlimited, 1}
  EnrolHandler = {h1, h2}
  Lessons = 3
  Start <- LessonStart
  End <- LessonEnd
  ScanTime = {682, 686, 850}
  MaxScans = 3
  ScanId = {1, 2}
  Comment = {m1, m2}
  Submitter = {h1, h2}
  MaxSubmissions = 2
  MaxComments = 3
  MaxChunk = 2
  Author = {m1, m2}
  Text <- Texts
  Hits <- LeadHits
  Verdict <- LeadVerdict
  None = None
  Learner = {"s"}
  Group = {"k1", "k2"}
  CenterOf <- CenterOfClass
  Month = {1, 2}
  Fee <- LessonFee
  Enrolled = {"Active"}
  Extra <- Corrections
  WageTables <- SomeWages
  Child = {m1, m2}
  Tutor = {"t"}
  Login = {1, 2}
  AccountId = {c1, c2}
  Editor = {h1, h2}
  NoOne = NoOne
  MaxRows = 2
  Nothing = Nothing
SPECIFICATION Spec
SYMMETRY ServiceSymmetry
INVARIANTS
  OrderExplained
  
  PresentHasScan
  CompletedIsAnalysed
  ProfilesFollowComments
  
  LoginKept
PROPERTIES
  BilledPriceFrozen
  NoNewOverlap
  EnrolWithinCapacity
CHECK_DEADLOCK FALSE
