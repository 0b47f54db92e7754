\* One api process that follows the chain and is probed again and again,
\* under fair scheduling. Restarts and probes never end.
SPECIFICATION HealthFairSpec
CONSTANTS
  s1 = s1
  Subs = {s1}
  Syncs = {}
  Chains = {1, 4663}
  OurChain = 4663
  MaxHeight = 2
  MaxForks = 1
  InboxCap = 1
  BackoffBase = 1
  BackoffMax = 1
  Pingers = {"postgres"}
  StaleAfter = 1
PROPERTIES
  ReadyIsEarned
  SilenceIsReported
  OutageIsReported
