SPECIFICATION FairSpec
CONSTANTS
  hourly = hourly
  daily = daily
  bad = bad
  Cron <- MCCron
  BadCron <- MCBadCron
  MaxFaults = 2
  MaxCrashes = 2
  MaxWrites = 5
INVARIANTS
  JobIsCurrent
  NoGhostJob
PROPERTIES
  CatchesUp
  DeletionEnds
CHECK_DEADLOCK FALSE
