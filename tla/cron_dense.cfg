SPECIFICATION Spec
CONSTANTS
    Schedules <- CronFinding
    FirstMinute = 717
    LastMinute = 723
INVARIANT DueEntriesInvokedAlways
