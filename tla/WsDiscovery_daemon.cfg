CONSTANTS
  NoPid = NoPid
  Daemons = {d1, d2}
  SerialStarts = TRUE
  MaxNumber = 3
SPECIFICATION FairSpec
INVARIANTS
  TypeOK
  OneDaemon
  EndsWithBye
  AnswersCarryAnAddress
PROPERTIES
  NumbersGrow
  NothingAfterBye
  StopsWhenInsistent
