\* Links over both transports and concurrent policy updates around both CHECK
\* boundaries. Requests end, so the system stops.
SPECIFICATION FrontSpec
CONSTANTS
  u1 = u1
  u2 = u2
  w1 = w1
  w2 = w2
  NoWallet = NoWallet
  NoWorker = NoWorker
  Users = {u1, u2}
  Wallets = {w1, w2}
  Owner <- MCOwner
  BadAddrs = {w2}
  ZeroAddrs = {w2}
  Chains = {1, 4663}
  OurChain = 4663
  Reqs <- MCReqs
  Via <- MCVia
  Unreadable <- MCUnreadable
  Workers = {}
  MaxRetry = 1
  LimitTop = 20
  DefaultLimit = 10
VIEW MCView
INVARIANTS
  PolicyWithinBounds
  TradingIsExplicit
  RefusedIsUntouched
  CreatedIsTheirs
  NotYoursIsNotFound
PROPERTIES
  OnlyOwnerChanges
CHECK_DEADLOCK FALSE
