SPECIFICATION FairSpec
CHECK_DEADLOCK FALSE
CONSTANTS
  n1 = n1
  High = 2
  Low = 1
  Capacity = 3
  MaxFailures = 1
  RequestCount = 3
  Grid = {2}
  Chunks = 2
  Notes = {n1}
  MaxTrouble = 1
INVARIANTS QueueIsSound AssemblyIsSound
PROPERTIES RequestsAreAnswered SendsSettle
