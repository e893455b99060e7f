SPECIFICATION Spec
CONSTANTS
  None = None
  s1 = s1  s2 = s2  s3 = s3
  g1 = g1  g2 = g2
  d1 = d1  d2 = d2  d3 = d3
  r1 = r1  r2 = r2  r3 = r3
  o1 = o1  o2 = o2  o3 = o3
  v1 = v1  v2 = v2  f1 = f1  f2 = f2
  reviewer = reviewer  publisher = publisher
  Sessions = {s1, s2, s3}
  Actors = {reviewer, publisher}
  Generations = {g1, g2}
  DecisionIds = {d1, d2, d3}
  RevisionIds = {r1, r2}
  OperationIds = {o1, o2, o3}
  CopyRevisions = {v1, v2}
  FactSets = {f1, f2}
  FactSetOf <- MCFactSetOf
  DecisionCalls <- RaceDecisions
  SealCalls <- RaceSeals
  TransitionCalls <- RaceTransitions
  MaxCalls = 5
SYMMETRY SessionSymmetry
INVARIANTS TypeOK ReviewChains PublishedFromApproval
PROPERTIES CommitsAreLedgerSteps
CHECK_DEADLOCK FALSE
