\* Two requests to replicas whose clocks differ by up to two units; both may
\* carry the same payload. As in the code, the grace is the skew. Time ends, so
\* the system stops.
SPECIFICATION Spec
CONSTANTS
  q1 = q1
  q2 = q2
  Requests = {q1, q2}
  Payloads <- MCPayloads
  TTL = 2
  Skew = 3
  Grace = 3
  Drift = 1
  Stall = 1
  MaxTime = 9
INVARIANTS
  AcceptedOnce
  SpentWhileFresh
  EntriesAreEarned
CHECK_DEADLOCK FALSE
