SPECIFICATION Spec
CONSTANTS
  Task = {1, 2}
  Totals = {2}
  Epochs = {TRUE}
  Commands = {"START"}
  QueueDepth = 2
  FailLimit = 2
  MaxPlans = 2
  MaxResets = 1
  MaxFaults = 0
PROPERTIES ErasedForOwnPlan
