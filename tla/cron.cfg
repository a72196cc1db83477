SPECIFICATION Spec
CONSTANTS
    Schedules <- MCSchedules
    FirstMinute = 717
    LastMinute = 720
INVARIANTS
    TypeOK
    OncePerMinute
    DueEntriesInvoked
    FieldsAsDocumented
