CONSTANTS
  Absent = Absent
  Unparsable = Unparsable
  c1 = c1
  Cgi = {c1}
  MAX_SUBSCRIPTIONS = 1
  EventsNum = 2
  MaxId = 5
  MaxLife = 1
  PullLife = 1
  PushLife = 2
  Grace = 1
  Lag = 0
  Expressions <- AllTopics
  PullTerms = {1}
  PushTerms = {3}
  RenewTerms = {}
  Timeouts = {1}
  Limits = {1}
  SerialClients = TRUE
  Inotify = FALSE
  FilesAtStart <- SecondFile
  MaxNow = 3
  MaxAllocs = 1
  MaxQueue = 1
SPECIFICATION FairSpec
PROPERTIES
  FilesAreNoticed
  ExpiredAreFreed
  PullsEnd
  SyncIsServed
