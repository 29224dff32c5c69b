CONSTANTS
  Comparison = {c1, c2, c3}
  OneSided = {removed}
  NoEdge = NoEdge
  MaxItems = 2
  MaxTotal = 4
  Plans <- MCPlans
SPECIFICATION FairSpec
INVARIANTS
  IInv
  VerdictsCorrect
  OutcomesExact
  RecordsInv
PROPERTIES
  VerdictsFinal
  ImplementsSearch
  Termination
