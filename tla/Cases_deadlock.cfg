SPECIFICATION Spec
VIEW Distinguished
SYMMETRY Symmetry
CONSTANTS
  r1 = r1
  r2 = r2
  Requests = {r1, r2}
  Amounts = {0, 1}
  MaxLines = 2
INVARIANTS
  ReviewsDoNotDeadlock
