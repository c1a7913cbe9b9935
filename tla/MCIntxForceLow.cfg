SPECIFICATION IntxSpec
CONSTANTS
  Lines = {0}
  Register = Register
INVARIANT
  DisabledLineLow
