CONSTANTS
  Main = Main
  Sync = Sync
  c1 = c1
  c2 = c2
  Cgi = {c1, c2}
  MaxSems = 3
  MaxShms = 1
SPECIFICATION FairSpec
INVARIANTS
  IInv
  OneHolderPerSemaphore
  ExclusionInFirstPeriod
PROPERTIES
  DaemonNeverStuck
CHECK_DEADLOCK FALSE
