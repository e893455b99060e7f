SPECIFICATION Spec
CONSTANTS
  None = None
  good = good
  drifted = drifted
  partial = partial
  c1 = c1
  c2 = c2
  c3 = c3
  Commands = {c1, c2}
  Contents = {good}
  ParserRejects <- MCParserRejects
  GenerationRejects <- MCGenerationRejects
INVARIANT ReplayMakesCandidate
CHECK_DEADLOCK FALSE
