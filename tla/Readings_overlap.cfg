SPECIFICATION Spec
CONSTANTS
  Readers = {r1, r2}
  Reviewers = {}
SYMMETRY Symmetry
CHECK_DEADLOCK FALSE
INVARIANT OneReading
