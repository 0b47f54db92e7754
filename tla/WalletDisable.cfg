\* One wallet, linked and disabled repeatedly and its limits updated while it is
\* verified. Requests and tasks end, so the system stops.
SPECIFICATION Spec
CONSTANTS
  u1 = u1
  u2 = u2
  w1 = w1
  w2 = w2
  k1 = k1
  k2 = k2
  NoWallet = NoWallet
  NoWorker = NoWorker
  Users <- MCTwoUsers
  Wallets <- MCOneWallet
  Owner <- MCOwner1
  BadAddrs = {}
  Chains = {1, 4663}
  OurChain = 4663
  Reqs <- MCBusyReqs
  Workers = {k1, k2}
  MaxRetry = 1
  LimitTop = 20
  DefaultLimit = 10
VIEW MCView
SYMMETRY MCWorkerSymmetry
INVARIANTS
  TypeOK
  DisabledStaysOff
PROPERTIES
  ActivatedOnOurChain
  ImplementsLifecycle
CHECK_DEADLOCK FALSE
