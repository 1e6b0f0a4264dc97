\* The two cores of a CorePair share a mandatory queue and a block map.
CONSTANTS
  Seqs = {s1, s2}
  Lines = {a}
  MaxOutstanding = 2
  DataOps = {"ST", "Locked_RMW_Read"}
  ReplaceLocked = FALSE
  Idle = Idle
  None = None
SPECIFICATION Spec
INVARIANT RMWAtomic
