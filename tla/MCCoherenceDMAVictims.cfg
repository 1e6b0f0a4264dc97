CONSTANTS
  CorePairs = {c1}
  TCCs = {}
  TCPs = {}
  DMAs = {d1}
  Word = {}
  Value = {z}
  Zero = z
  Functor <- MCFunctor
  NoLine = NoLine
  NoTBE = NoTBE
  NoWTR = NoWTR
  UseL3OnWT = FALSE
  L3First = TRUE
  CPUOps = {"RdBlkM", "VicDirty"}
  GPUOps = {}
  DMAOps = {"DmaRead"}
SPECIFICATION Spec
INVARIANTS NothingStalledInU
