SPECIFICATION Spec
CONSTANTS
  Task = {1, 2}
  Totals = {0, 1}
  Epochs = {TRUE}
  Commands = {"START", "SELFTEST", "STOP"}
  QueueDepth = 2
  FailLimit = 2
  MaxPlans = 2
  MaxResets = 1
  MaxFaults = 0
INVARIANTS TypeOK StoredOnce SampleBudget SessionHasHeader RemainingDescends CompletedIsOver
