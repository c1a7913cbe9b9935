SPECIFICATION CfgSpec
CONSTANTS
  NumQueues = 2
  Rings = {"desc"}
  Values = {0, 1}
  Wide = {0, 1}
  Disciplined = TRUE
PROPERTY
  RefinesQueueRegs
