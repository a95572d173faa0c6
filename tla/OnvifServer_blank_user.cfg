SPECIFICATION Spec
CONSTANTS
  Procs = {p1, p2}
  Devices <- BlankDevices
  Serial = {}
  Prompt = {"blank"}
  Numbers <- MCNumbers
  Names <- MCNames
  Uuids <- MCUuids
  MaxPresets = 2
INVARIANT
  BlankUserDisablesSecurity
