\* Runs at work on two collections of two partitions each.
SPECIFICATION Spec
CONSTANTS
  r1 = r1
  r2 = r2
  r3 = r3
  c1 = c1
  c2 = c2
  seoul = seoul
  busan = busan
  first = first
  revised = revised
  Drifted = Drifted
  None = None
  Runs = {r1, r2, r3}
  Collections = {c1, c2}
  Regions = {seoul, busan}
  Editions = {first, revised}
  Plans <- MCPlans
  Answers <- MCAnswers
SYMMETRY Symmetry
CHECK_DEADLOCK FALSE
INVARIANTS AttemptsAreGapless ValidatedCollectionsReconcile ReceiptsMatchStoredParts RefusalsHaveACause
