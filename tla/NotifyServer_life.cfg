CONSTANTS
  NoPid = NoPid
  NoSegment = NoSegment
  Daemons = {d1, d2}
  Cgi = {c1}
  Segments = {s1, s2}
SPECIFICATION FairSpec
INVARIANTS
  TypeOK
  OneDaemon
  ServedSegmentIsReachable
  NoOrphanSegment
  RefusedOnlyAfterACrash
  GrantedSurvives
PROPERTIES
  StopsWhenPolling
  StopsWhenFilesChange
