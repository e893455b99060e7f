SPECIFICATION Spec
CONSTANTS
  None = None
  g1 = g1
  g2 = g2
  s1 = s1
  s2 = s2
  Generations = {g1, g2}
  Series = {s1, s2}
  Readers = {r1}
  Price <- MCPrice
  Reference <- MCReference
  MaxAge = 2
  MaxTime = 5
INVARIANTS TypeOK PageOfOneRevision FreshMeansConfirmed OnlyTinyChangesFail
