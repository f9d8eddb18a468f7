SPECIFICATION Spec
CONSTANTS
  Task = {1}
  Totals = {2}
  Epochs = {TRUE}
  Commands = {"START", "STOP"}
  QueueDepth = 2
  FailLimit = 2
  MaxPlans = 1
  MaxResets = 1
  MaxFaults = 0
INVARIANTS StopIsFinal
