SPECIFICATION Spec
CONSTANTS
  None = None
  good = good
  drifted = drifted
  partial = partial
  c1 = c1
  c2 = c2
  c3 = c3
  Commands = {c1, c2, c3}
  Contents = {good, drifted, partial}
  ParserRejects <- MCParserRejects
  GenerationRejects <- MCGenerationRejects
SYMMETRY Interchangeable
INVARIANTS TypeOK OneGenerationPerContent OutcomeFitsContent ReceiptsStayTrue OpenWorkHasACause 
PROPERTY OutcomesAreFinal
CHECK_DEADLOCK FALSE
