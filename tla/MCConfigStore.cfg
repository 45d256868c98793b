CONSTANTS
  Programs <- MCPrograms
  Default <- MCDefault
  Blank <- MCBlank
  Needed <- MCNeeded
  Edits <- MCEdits
  Heads = {"status1", "status2"}
  Freqs = {10, 11, 13}
  Grid = {10, 13}
  Short = {11}
  Rates = {96, 192}
  FirstRate = 96
  Types = {"FSK", "MSK"}
  FirstType = "FSK"
  MaxChanges = 3

SPECIFICATION Spec
INVARIANTS
  SettingsKept
  SavedIsLast
  WavesAgree
  ControlsShowTheRow
PROPERTIES
  ChangesStayLocal
CHECK_DEADLOCK FALSE
