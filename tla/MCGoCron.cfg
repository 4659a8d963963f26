CONSTANTS
  u1 = u1
  Users <- OneUser
  Names = {"a"}
  RunOnce = {"a"}
  MaxEntries = 1
  MaxJobs = 2
SPECIFICATION CronSpec
CHECK_DEADLOCK FALSE
PROPERTY OnceRunsOnce
