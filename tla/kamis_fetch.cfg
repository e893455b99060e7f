SPECIFICATION Spec
CONSTANTS
  None = None
  MaxPages = 12
  MaxCalls = 12
  MaxAttempts = 3
  PageSizes = {1, 2}
  Totals <- MCTotals
  Replies <- AllReplies
INVARIANTS TypeOK FetchWithinLimits ResultsAreAccepted EvidenceReconciles
PROPERTIES OnlyTheseStayStarted
