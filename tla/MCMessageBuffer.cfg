\* A buffer of three messages about two lines, batches of two, four clock edges.
CONSTANTS
  Lines = {a, b}
  MaxSize = 3
  Latencies = {1, 2}
  RecycleLatency = 2
  MaxBatch = 2
  MaxMsgs = 5
  MaxTime = 4
  None = None
SPECIFICATION Spec
SYMMETRY Symmetry
INVARIANTS WithinSize StalledAwaited NoLostWakeup
PROPERTY InOrder
