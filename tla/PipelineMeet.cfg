\* One person's first contacts over both channels, with a suspension and a
\* reinstatement. Requests end, so the system stops.
SPECIFICATION Spec
CONSTANTS
  a1 = a1
  a2 = a2
  a3 = a3
  NoAccount = NoAccount
  NoOne = NoOne
  Requests <- MeetRequests
  Tids = {7}
  Listed = {7}
  Accounts = {a1, a2, a3}
  RateLimit = 1
  MaxWindow = 0
  MaxRulings = 2
SYMMETRY MCSymmetry
INVARIANTS
  TypeOK
  OneAccountPerUser
  OnboardedOnce
  RevocationHolds
CHECK_DEADLOCK FALSE
