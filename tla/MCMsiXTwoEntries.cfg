SPECIFICATION Spec
CONSTANTS
  NumVectors = 3
  NumPba = 2
  PbaWidth = 2
  Dwords = {0, 1}
  Unset = Unset
INVARIANT
  FindsNextPending
