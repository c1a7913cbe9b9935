SPECIFICATION WindowSpec
CONSTANTS
  Page = 8
  CommonSize = 3
  TableBytes = 4
  PbaBytes = 1
  NumBarRegs = 1
  Dword = 256
  DataOffset = 4
  ConfigSize = 9
  Contents = {7}
  AllOnes = 255
  Selections <- MCSelections
  Addresses = {72, 87, 128}
  ConfigOffsets = {0, 4, 5, 13}
  Sizes = {1, 3, 4}
  BarValues = {65, 128, 255}
  None = None
INVARIANTS
  WindowTypeOK
  ReachesAdvertised
  WindowIsSelected
  FreshOrOnes
PROPERTY
  IsrDelivered
