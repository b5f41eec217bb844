SPECIFICATION Spec
CONSTANTS
  w1 = w1
  w2 = w2
  elsewhere = elsewhere
  s1 = s1
  s2 = s2
  Weeks = {w1, w2}
  Elsewhere = elsewhere
  Sessions = {s1, s2}
  Rates = {0, 2}
  Terms <- OneOrTwo
  Advances = {1, 2}
  Loans <- Parked
SYMMETRY AlikeWeeks
INVARIANTS
  AdvancesAreRepaidOnce
  RowsTellThePayslips
PROPERTIES
  NeverMoreThanAgreed
