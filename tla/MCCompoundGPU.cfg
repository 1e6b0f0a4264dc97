CONSTANTS
  CorePairs = {c1}
  TCCs = {g1}
  TCPs = {t1}
  DMAs = {}
  Word = {w}
  Value = {z, a}
  Zero = z
  Functor <- MCFunctor
  NoLine = NoLine
  NoTBE = NoTBE
  NoWTR = NoWTR
  UseL3OnWT = TRUE
  L3First = FALSE
  Ops = {"ST"}
  Repls = {}
  WB = {FALSE, TRUE}
  TCPOps = {"RdBlk", "WriteThrough", "Atomic"}
  GPUMasks = {{w}}
  GPUValue = {a}
  CPUWord = {w}
  CPUValue = {z}
  TCCRepl = TRUE
  DMAOps = {}
SPECIFICATION FairSpec
INVARIANTS MemoryFresh AllDeclared
PROPERTIES Implements TCPsServed
