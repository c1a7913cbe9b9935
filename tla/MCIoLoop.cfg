SPECIFICATION IoFairSpec
CONSTANTS
  Vcpus = {c1, c2, c3}
  Values = {d1, d2}
  AllOnes = AllOnes
  Own = "own"
  Cmdlines <- MCCmdlines
  MaxWakeups = 3
  None = None
CHECK_DEADLOCK FALSE
INVARIANTS
  GuestStartsComplete
  RequestsTracked
PROPERTIES
  AnswersFit
  RequestsAnswered
