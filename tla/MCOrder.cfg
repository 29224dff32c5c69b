CONSTANTS
  None = None
  MaxMatches = 4
  Inputs <- MCInputs
SPECIFICATION FairSpec
INVARIANTS IInv ReorderExact BothOrdersKept
PROPERTY Termination
