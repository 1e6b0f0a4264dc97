CONSTANTS
  CorePairs = {c1, c2}
  TCCs = {}
  TCPs = {}
  DMAs = {d1}
  Word = {}
  Value = {z}
  Zero = z
  Functor <- MCFunctor
  NoLine = NoLine
  NoTBE = NoTBE
  NoWTR = NoWTR
  UseL3OnWT = FALSE
  L3First = TRUE
  CPUOps = {"RdBlk", "RdBlkM"}
  GPUOps = {}
  DMAOps = {"DmaRead", "DmaWrite"}
SPECIFICATION FairSpec
INVARIANT DirDeclared
PROPERTIES RequestsServed DmaServed
