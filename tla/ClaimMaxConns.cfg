\* A process whose connection limit is a negative number far out of range.
SPECIFICATION Spec
CONSTANTS
  boot = boot
  h1 = h1
  Boot = boot
  Handlers = {h1}
  Callers = {boot, h1}
  Envs <- ClaimEnvs
  IntWidth = 5
  MaxRetries = 3
  Backoff = 2
  MaxWait = 5
  Width = 4
  Chains = {1, 4663}
  OurChain = 4663
INVARIANT MaxConnsAsConfigured
CHECK_DEADLOCK FALSE
