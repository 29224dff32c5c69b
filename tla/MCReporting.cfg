CONSTANTS
  top = top
  Comparison = {top, c1, c2, c3}
  OneSided = {removed}
  NoEdge = NoEdge
  MaxDetails = 2
  MaxTotal = 3
  Formats = {"plain", "flat", "small", "viz"}
  Reports <- MCReports
SPECIFICATION FairSpec
INVARIANTS
  PlainComplete
  SectionsExact
  EveryChangeReported
  GraphvizExact
  IInv
PROPERTIES
  ReferencesRight
  Termination
