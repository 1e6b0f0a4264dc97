CONSTANTS
  CorePairs = {c1, c2}
  TCCs = {}
  TCPs = {}
  DMAs = {d1}
  Word = {w}
  Value = {z, a}
  Zero = z
  Functor <- MCFunctor
  NoLine = NoLine
  NoTBE = NoTBE
  NoWTR = NoWTR
  UseL3OnWT = FALSE
  L3First = TRUE
  Ops = {"LD", "ST"}
  Repls = {"L1", "L2"}
  WB = {FALSE}
  TCPOps = {}
  GPUMasks = {}
  GPUValue = {z}
  CPUWord = {w}
  CPUValue = {z, a}
  TCCRepl = FALSE
  DMAOps = {"DmaRead"}
SPECIFICATION Spec
SYMMETRY Symmetry
INVARIANT MemoryFresh
PROPERTIES DmaReadFresh
