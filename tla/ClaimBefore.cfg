\* Two policy updates overlap; one records limits it did not replace.
SPECIFICATION Spec
CONSTANTS
  u1 = u1
  u2 = u2
  w1 = w1
  w2 = w2
  k1 = k1
  k2 = k2
  NoWallet = NoWallet
  NoWorker = NoWorker
  Users <- MCTwoUsers
  Wallets <- MCOneWallet
  Owner <- MCOwner1
  BadAddrs = {}
  Chains = {1, 4663}
  OurChain = 4663
  Reqs <- MCOverlapReqs
  Workers = {k1}
  MaxRetry = 1
  LimitTop = 20
  DefaultLimit = 10
PROPERTIES
  AuditedBeforeIsReplaced
CHECK_DEADLOCK FALSE
