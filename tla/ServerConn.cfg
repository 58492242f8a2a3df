SPECIFICATION Spec
CONSTANTS
  Requests = {s}
  Pushes = {p}
  Body = 2
  MaxCredit = 1
  Casts = {{"body", "reject", "settings"}, {"push", "reject"}, {"push", "break"}}
INVARIANTS
  ServerInv
PROPERTIES
  HandlerOrder
  
  RequestReachesHandler
  ServeReturns
CHECK_DEADLOCK FALSE
