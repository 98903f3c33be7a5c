SPECIFICATION Spec
CONSTANTS
  HoursPerDay = 4
  MinutesPerHour = 2
  ZoneOffset <- Zones
  SevereCodes = {65, 67, 75, 82, 86, 95, 96, 99}
  EqTolerance = 1
  Period = 1
  Cooldowns = {2, 3}
  Windows <- AllWindows
  ConditionSets <- AllConditions
  Snapshots <- Weather
  MaxEdits = 0
PROPERTY FiresOnNewCrossing
