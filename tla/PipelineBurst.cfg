\* Commands of one person at once, over two windows, among requests that are
\* turned away, under fair scheduling.
\* Requests end, so the system stops.
SPECIFICATION FairSpec
CONSTANTS
  a1 = a1
  a2 = a2
  a3 = a3
  NoAccount = NoAccount
  NoOne = NoOne
  Requests <- BurstRequests
  Tids = {7, 9}
  Listed = {7}
  Accounts = {a1, a2}
  RateLimit = 1
  MaxWindow = 1
  MaxRulings = 0
INVARIANTS
  WithinRate
  StrangersLeaveNoTrace
PROPERTIES
  EveryRequestEnds
CHECK_DEADLOCK FALSE
