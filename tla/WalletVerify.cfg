\* Two bot wallets of one account are verified under fair scheduling, with
\* every failure. Requests and tasks end, so the system stops.
SPECIFICATION FairSpec
CONSTANTS
  u1 = u1
  u2 = u2
  w1 = w1
  w2 = w2
  k1 = k1
  k2 = k2
  NoWallet = NoWallet
  NoWorker = NoWorker
  Users <- MCTwoUsers
  Wallets <- MCTwoWallets
  Owner <- MCOwner2
  BadAddrs = {}
  Chains = {1, 4663}
  OurChain = 4663
  Reqs <- MCLinkReqs
  Workers = {k1, k2}
  MaxRetry = 1
  LimitTop = 20
  DefaultLimit = 10
INVARIANTS
  OneActiveBot
  CompletedMeansDecided
  TaskHasWallet
PROPERTIES
  TaskSettles
CHECK_DEADLOCK FALSE
