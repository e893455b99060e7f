SPECIFICATION Spec
CONSTANTS
  None = None
  s1 = s1  s2 = s2
  m1 = m1  m2 = m2  r1 = r1  k1 = k1
  dm1 = dm1  dm1b = dm1b  dm2 = dm2  dr = dr  dk = dk
  b1 = b1  b2 = b2  b3 = b3
  o1 = o1  o2 = o2  o3 = o3
  report = report  manifest = manifest
  reviewer = reviewer  publisher = publisher
  Sessions = {s1, s2}
  Actors = {reviewer, publisher}
  Collections = {m1, m2, r1, k1}
  KindOf <- MCKindOf
  ContentsOf <- MCContentsOf
  Manifests = {manifest}
  DecisionIds = {dm1, dm1b, dm2, dr, dk}
  BundleIds = {b1, b2, b3}
  OperationIds = {o1, o2, o3}
  Reports = {report}
  Recorded <- MCRecorded
  ReviewCalls <- MCReviews
  SealCalls <- MCSeals
  TransitionCalls <- MCTransitions
  HistoryMonths = 2
  DailySpan = 2
  MaxCalls = 8
SYMMETRY SessionSymmetry
INVARIANTS TypeOK ReviewChains BundlesAreReadable
PROPERTIES ImplementsChannel SealRefusalsHaveACause
CHECK_DEADLOCK FALSE
