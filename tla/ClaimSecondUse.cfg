\* The same instance, for what the README says of a captured payload.
SPECIFICATION Spec
CONSTANTS
  q1 = q1
  q2 = q2
  Requests = {q1, q2}
  Payloads <- MCPayloads
  TTL = 2
  Skew = 3
  Grace = 3
  Drift = 1
  Stall = 1
  MaxTime = 9
INVARIANT SignedIsAcceptedOnce
CHECK_DEADLOCK FALSE
