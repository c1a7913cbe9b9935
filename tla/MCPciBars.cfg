SPECIFICATION BarsSpec
CONSTANTS
  NumBarRegs = 3
  HeaderBars = 3
  Dword = 4
  MaxSize <- MCMaxSize
  None = None
INVARIANTS
  BarsDisjoint
  SizeProbe
  SizingUnreachable
  KnownCurrent
