SPECIFICATION MsiSpec
CONSTANTS
  MultipleMessageCapable = 1
  PerVectorMasking = TRUE
  NumBits = 3
  DataBits = 2
INVARIANTS
  MsiTypeOK
  MsiPendingIsBlocked
  EnabledVectorData
PROPERTY
  MsiRefinesLatch
