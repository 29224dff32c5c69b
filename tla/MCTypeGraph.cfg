CONSTANTS
  NoEdge = NoEdge
  None = None
  Left <- MCLeft
  Right <- MCRight
  Comparison <- MCComparison
  OneSided <- MCOneSided
  Plans = {}
  Graphs <- MCGraphs
  Options <- MCOptions
SPECIFICATION CompareRootsSpec
INVARIANTS
  EqualUpToTypedefs
  DirectionsMirror
  HoldersCutCycles
  DifferencesExplained
