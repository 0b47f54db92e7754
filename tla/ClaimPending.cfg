\* Nothing takes up a wallet whose verification was not enqueued or failed.
SPECIFICATION FairSpec
CONSTANTS
  u1 = u1
  u2 = u2
  w1 = w1
  w2 = w2
  k1 = k1
  k2 = k2
  NoWallet = NoWallet
  NoWorker = NoWorker
  Users <- MCTwoUsers
  Wallets <- MCOneWallet
  Owner <- MCOwner1
  BadAddrs = {}
  Chains = {1, 4663}
  OurChain = 4663
  Reqs <- MCOneLinkReqs
  Workers = {k1}
  MaxRetry = 1
  LimitTop = 20
  DefaultLimit = 10
PROPERTIES
  PendingIsTakenUp
CHECK_DEADLOCK FALSE
