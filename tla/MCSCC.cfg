CONSTANTS
  Node = {n1, n2, n3}
  MaxDegree = 2
  Graphs <- MCGraphs
SPECIFICATION FairSpec
INVARIANTS
  ComponentsCorrect
  EmptyBetweenSearches
  IInv
PROPERTIES
  Implements
  Termination
