\* Two connections, three functions in three files, two crashes.
SPECIFICATION Spec
CONSTANTS
  c1 = c1
  c2 = c2
  m1 = m1
  Conn = {c1, c2}
  Text = {"a", "b"}
  File = {"f1", "f2", "f3"}
  Signatures <- MCSignatures
  Memory = {m1}
  MaxId = 2
  MaxCrash = 2
INVARIANT AckedDurable
INVARIANT SearchNamesItsFunction
PROPERTY EveryRequestAnswered
