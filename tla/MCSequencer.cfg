\* One core's two ports on one line: every request type, up to three
\* outstanding, drains, evictions and refused requests.
CONSTANTS
  Seqs = {s1}
  Lines = {a}
  MaxOutstanding = 3
  DataOps = {"LD", "ST", "Load_Linked", "Store_Conditional", "RMW_Read", "Locked_RMW_Read"}
  ReplaceLocked = FALSE
  Idle = Idle
  None = None
SPECIFICATION FairSpec
INVARIANTS OneRubyRequest CountMatches MonitorSound
PROPERTIES RefusedServed ListsServed DrainCompletes
