SPECIFICATION FairSpec
CONSTANTS
  NumVectors = 2
  NumPba = 1
  PbaWidth = 3
  Dwords = {0, 1}
  Unset = Unset
INVARIANTS
  TypeOK
  PendingIsBlocked
  DeviceDataCurrent
PROPERTIES
  RefinesLatch
  EvaluationEnds
