CONSTANTS
  CorePairs = {c1}
  TCCs = {g1}
  TCPs = {t1, t2}
  DMAs = {}
  Word = {w1, w2}
  Value = {z, a}
  Zero = z
  Functor <- MCFunctor
  NoLine = NoLine
  NoTBE = NoTBE
  NoWTR = NoWTR
  UseL3OnWT = TRUE
  L3First = FALSE
  Ops = {"ST"}
  Repls = {"L2"}
  WB = {FALSE}
  TCPOps = {"RdBlk", "WriteThrough"}
  GPUMasks = {{w1}}
  GPUValue = {a}
  CPUWord = {w2}
  CPUValue = {a}
  TCCRepl = FALSE
  DMAOps = {}
SPECIFICATION Spec
SYMMETRY Symmetry
INVARIANTS CPUCopiesFresh MemoryFresh GPUCopyFresh AllDeclared
