\* A process that retries until the shifted delay no longer fits a Duration of
\* few bits.
SPECIFICATION Spec
CONSTANTS
  boot = boot
  h1 = h1
  Boot = boot
  Handlers = {h1}
  Callers = {boot, h1}
  Envs <- MCEnvs
  IntWidth = 5
  MaxRetries = 3
  Backoff = 2
  MaxWait = 5
  Width = 4
  Chains = {1, 4663}
  OurChain = 4663
INVARIANT BacksOffExponentially
CHECK_DEADLOCK FALSE
