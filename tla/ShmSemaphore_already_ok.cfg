CONSTANTS
  Main = Main
  Sync = Sync
  c1 = c1
  c2 = c2
  Cgi = {c1, c2}
  MaxSems = 3
  MaxShms = 2
SPECIFICATION Spec
INVARIANTS
  SemaphoreIsAlreadyOk
CHECK_DEADLOCK FALSE
