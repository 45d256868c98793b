CONSTANTS
  Step = 4
  Minute = 12
  Day = 24
  Days <- MCDays
  Never = Never
  Dirs = {"d1", "d2"}
  Names = {"n1", "n2"}
  Cwd = "d1"
  NoPath = NoPath
  BufferSize = 3
  Lengths = {1, 2}
  MaxBytes = 5

SPECIFICATION MCClockSpec
PROPERTY
  DateAdvancesAtMidnight
