CONSTANTS
  limit = 2
  Reports <- MCReports
SPECIFICATION Spec
INVARIANTS
  SymbolsAccounted
  OffsetsExact
