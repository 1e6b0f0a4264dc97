\* Two wavefronts, three lines, a two-block TCP, three instructions from the
\* kernel of MCCoalescer, one write of another agent.
CONSTANTS
  w1 = w1
  w2 = w2
  la = la
  lb = lb
  lc = lc
  Waves = {w1, w2}
  Lines = {la, lb, lc}
  Kernel <- MCKernel
  Blocks = 2
  Tokens = 2
  MaxOutstanding = 2
  MaxInsts = 3
  MaxRemote = 1
  None = None
SPECIFICATION FairSpec
INVARIANTS TokensMatch OneIssued WritesPromised ReadsOwnWrites AcquireQuiet
PROPERTY InstsComplete
