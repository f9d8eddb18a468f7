SPECIFICATION FairSpec
CONSTANTS
  Task = {t1, t2}
  None = None
  Blocks = 2
  EraseDepth = 1
  MaxBegins = 2
  MaxClears = 2
  MaxInitFails = 3
  MaxEraseFails = 1
INVARIANTS TypeOK OneInStore ActiveHasHeader HaltNeedsDeadChip
PROPERTIES ClearedGone ErasingSettles CommandsServed
