SPECIFICATION FairSpec
CONSTANTS
  Procs = {p1, p2}
  Devices <- MCDevices
  Serial = {"presets"}
  Prompt = {"full", "poor", "lame", "json", "silent", "single", "presets"}
  Numbers <- MCNumbers
  Names <- MCNames
  Uuids <- MCUuids
  MaxPresets = 2
INVARIANTS
  TypeOK
  NothingWithoutCredentials
  EveryRequestIsAnswered
  OkMeansDone
  RejectedIsNotApplied
  ListedIsUsable
  ClaimsAgree
  PresetNamesUnique
PROPERTIES
  ImplementsPresetStore
  RequestsEnd
