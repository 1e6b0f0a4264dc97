\* The two cores of a CorePair: a request refused because of the other core's
\* lock.
CONSTANTS
  Seqs = {s1, s2}
  Lines = {a}
  MaxOutstanding = 1
  DataOps = {"ST", "Locked_RMW_Read"}
  ReplaceLocked = FALSE
  Idle = Idle
  None = None
SPECIFICATION FairSpec
PROPERTY RefusedServed
