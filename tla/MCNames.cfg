CONSTANTS
  Idle = Idle
  NamedGraphs <- MCNamedGraphs
SPECIFICATION Spec
INVARIANT NamesExact
PROPERTIES
  CacheFinal
  Ends
