CONSTANTS
  CorePairs = {c1, c2}
  TCCs = {}
  TCPs = {}
  DMAs = {}
  Word = {w}
  Value = {z, a}
  Zero = z
  Functor <- MCFunctor
  NoLine = NoLine
  NoTBE = NoTBE
  NoWTR = NoWTR
  UseL3OnWT = FALSE
  L3First = FALSE
  Ops = {"LD", "ST", "IF"}
  Repls = {"L2"}
  WB = {FALSE}
  TCPOps = {}
  GPUMasks = {}
  GPUValue = {a}
  CPUWord = {w}
  CPUValue = {a}
  TCCRepl = FALSE
  DMAOps = {}
SPECIFICATION FairSpec
INVARIANTS CPUCopiesFresh OneOwner CoresAwaited AllDeclared
PROPERTIES Implements CoresServed
