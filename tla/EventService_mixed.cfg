CONSTANTS
  Absent = Absent
  Unparsable = Unparsable
  c1 = c1
  Cgi = {c1}
  MAX_SUBSCRIPTIONS = 1
  EventsNum = 2
  MaxId = 5
  MaxLife = 2
  PullLife = 1
  PushLife = 2
  Grace = 2
  Lag = 1
  Expressions <- SomeTopics
  PullTerms = {1}
  PushTerms = {Absent}
  RenewTerms = {1}
  Timeouts = {1}
  Limits = {0, 1}
  SerialClients = TRUE
  Inotify = TRUE
  FilesAtStart <- NoFiles
  MaxNow = 4
  MaxAllocs = 2
  MaxQueue = 2
SPECIFICATION Spec
INVARIANTS
  NoLostMessage
  ClientsUpToDate
  NewPushIsDue
