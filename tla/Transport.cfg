SPECIFICATION Spec
CONSTANTS
  a = a
  b = b
  push = push
  Callers = {a, b}
  Pushes = {push}
  Body = 2
  EventBuffer = 1
  MaxConcurrent = 2
  MaxCredit = 1
  Casts <- Mixed
INVARIANTS
  TransportInv
  PanicsOnlyAfterClose
  NoOrphanStream
PROPERTIES
  ImplementsCalls
  FailureReleasesAll
  
  AnsweredReturns
  SenderWakes
CHECK_DEADLOCK FALSE
