SPECIFICATION ConfigSpec
CONSTANTS
  Width = 5
  Size = 18
  Start = 4
  End = 17
  CapPointer = 3
  Status = 2
  CapList = 1
  HeaderRegs = {0}
  Capabilities <- MCCapabilities
  Values <- MCValues
INVARIANTS
  ConfigTypeOK
  WalkFaithful
  CapabilitiesDisjoint
  ReadOnlyKept
PROPERTY
  WalkEnds
