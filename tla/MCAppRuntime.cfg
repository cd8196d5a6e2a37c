CONSTANTS
  m1 = m1
  m2 = m2
  Messages = {m1, m2}
  Links = {m1, m2}
  Products = {m2}
  MaxWorkers = 1
  AsyncLimit = 1
  Enabled = {"admin"}
SPECIFICATION Spec
INVARIANTS ErrorsReported ClosingIsLast
PROPERTIES ShutdownEnds LinksAreReplied
