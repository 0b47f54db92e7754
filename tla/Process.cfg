\* A process of each kind with one handler in flight, in environments that are
\* accepted and refused. Durations have so few bits that the third delay
\* overflows. The process exits, so the system stops.
SPECIFICATION FairSpec
CONSTANTS
  boot = boot
  h1 = h1
  Boot = boot
  Handlers = {h1}
  Callers = {boot, h1}
  Envs <- MCEnvs
  IntWidth = 5
  MaxRetries = 3
  Backoff = 2
  MaxWait = 5
  Width = 4
  Chains = {1, 4663}
  OurChain = 4663
INVARIANTS
  TriesAsConfigured
  PatientRetries
  NothingLeaks
  HandlersKeepTheirDeps
  CleanExitIsTrue
PROPERTIES
  AsksOnlyInVain
  StopsWhenTold
  CallsEnd
CHECK_DEADLOCK FALSE
