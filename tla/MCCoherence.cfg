CONSTANTS
  CorePairs = {c1}
  TCCs = {g1}
  TCPs = {}
  DMAs = {}
  Word = {}
  Value = {z}
  Zero = z
  Functor <- MCFunctor
  NoLine = NoLine
  NoTBE = NoTBE
  NoWTR = NoWTR
  UseL3OnWT = FALSE
  L3First = FALSE
  CPUOps = {"RdBlk", "RdBlkS", "RdBlkM", "VicDirty", "VicClean"}
  GPUOps = {"RdBlk", "WriteThrough", "Atomic"}
  DMAOps = {}
SPECIFICATION Spec
INVARIANTS IInv SWMR DirDeclared NothingStalledInU
PROPERTIES GPUWriteAlone
