CONSTANTS
  old = old
  new = new
  report = report
  Stdout = Stdout
  File = {old, new, report, Stdout}
  Old = Old
  Commands <- MCCommands
SPECIFICATION Spec
INVARIANTS
  ExitExact
  OutputsExact
  IInv
