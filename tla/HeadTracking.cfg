\* One api process and two overlapping sync tasks under fair scheduling, one
\* reorganisation.
SPECIFICATION FairSpec
CONSTANTS
  s1 = s1
  t1 = t1
  t2 = t2
  Subs = {s1}
  Syncs = {t1, t2}
  Chains = {1, 4663}
  OurChain = 4663
  MaxHeight = 3
  MaxForks = 1
  InboxCap = 1
  BackoffBase = 1
  BackoffMax = 3
INVARIANTS
  TypeOK
  OnlyOurHeads
PROPERTIES
  HeadNeverRewinds
  DropIsNoticed
  HeadCatchesUp
