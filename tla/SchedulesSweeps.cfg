CONSTANTS
  skips = skips
  repeats = repeats
  timer = timer
  press = press
  Person = person
  Minute = 1
  Cron <- TwoCrons
  Zone <- TwoZones
  Library <- TwoSchedules
  Sweepers = {timer, press}
  Timer = timer
  Grace = 2
  MaxTime = 5
  MaxRestarts = 1
SPECIFICATION ScheduleSpec
PROPERTIES
  FiresMoveForward
  OccurrencesAreAnswered
CHECK_DEADLOCK FALSE
