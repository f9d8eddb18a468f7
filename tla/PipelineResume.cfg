SPECIFICATION FairSpec
CONSTANTS
  Task = {1}
  Totals = {2}
  Epochs = {TRUE, FALSE}
  Commands = {"START", "STOP"}
  QueueDepth = 2
  FailLimit = 2
  MaxPlans = 1
  MaxResets = 2
  MaxFaults = 1
INVARIANTS RemainingDescends CompletedIsOver
PROPERTIES RunningSettles FinalizeServed QueueDrained
