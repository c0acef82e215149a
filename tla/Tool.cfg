SPECIFICATION Spec
CONSTANTS
  t1 = t1
  t2 = t2
  t3 = t3
  Client = {t1, t2, t3}
  Call <- ToolCall
  MaxPipe = 1
  Plans <- SomePlans
  Impatient = {t1}
  FirstPairs <- TwoSnapshots
CHECK_DEADLOCK FALSE
INVARIANT QueueWakesLoop
INVARIANT MistakenOnlyAtEnd
PROPERTY LeavesNothing
PROPERTY GoneForgotten
PROPERTY CommandsEnd
