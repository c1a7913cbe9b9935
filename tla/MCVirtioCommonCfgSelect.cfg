SPECIFICATION CfgSpec
CONSTANTS
  NumQueues = 2
  Rings = {"desc"}
  Values = {0, 1}
  Wide = {}
  Disciplined = FALSE
INVARIANT
  SelectAgrees
