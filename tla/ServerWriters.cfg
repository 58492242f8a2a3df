SPECIFICATION Spec
CONSTANTS
  Requests = {s}
  Pushes = {p}
  Body = 2
  MaxCredit = 1
  Casts = {{"body", "reject", "settings"}, {"push", "reject"}, {"push", "break"}}
INVARIANTS
  WritersAreLive
CHECK_DEADLOCK FALSE
