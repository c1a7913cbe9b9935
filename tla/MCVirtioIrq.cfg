SPECIFICATION IrqSpec
CONSTANTS
  NumVectors = 1
  NumPba = 1
  PbaWidth = 2
  Dwords = {0, 1}
  Unset = Unset
  Lines = {0, 1}
  Register = Register
INVARIANTS
  LineFollowsStatus
  MsiXStaysSound
  IsrReadLeavesIntxLow
