CONSTANTS
  t1 = t1
  t2 = t2
  s1 = s1
  s2 = s2
  Variadic = Variadic
  NoId = NoId
  NoSymbol = NoSymbol
  NoPath = NoPath
  Anonymous = Anonymous
  Documents <- MCDocuments
SPECIFICATION Spec
INVARIANT DuplicatesReported
