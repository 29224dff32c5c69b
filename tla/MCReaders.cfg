CONSTANTS
  PastEnd = PastEnd
  Unended = Unended
  NoOption = NoOption
  Calls <- MCCalls
SPECIFICATION Spec
INVARIANTS
  RefusesExactly
  BtfTypesExact
