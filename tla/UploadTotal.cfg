CONSTANTS
  r1 = r1
  r2 = r2
  a = a
  b = b
  png = png
  Blank = Blank
  Requests <- MCRequests
  Forms <- MCForms
  SingleMax = 3
  AllMax = 1
  DefaultSize = 2
SPECIFICATION PageSpec
CHECK_DEADLOCK FALSE
INVARIANT TotalWithinLimit
