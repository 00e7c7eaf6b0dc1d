CONSTANTS
  MAXSTACK = 20
  MAXINDEXRK = 3
  MAXARG_C = 2
  LFIELDS_PER_FLUSH = 2
  LUAI_MAXVARS = 20
  LUAI_MAXUPVALUES = 10
  StackSize = 48
  Programs <- Progs
  Parse <- Parser
  Meant <- Reference
  Inputs <- Args
SPECIFICATION Spec
INVARIANTS CompiledAsWritten AssertsHold
