SPECIFICATION FairSpec
CONSTANTS
    Sessions = {s1}
    Offered <- MCOffered
    Scheduled = sched
    Direct = {job}
    Retention <- MCRetention
    Debounce = 1
    Nightly = 2
    Never = Never
    MaxTime = 2
    MaxFails = 1
    MaxBoot = 1
CHECK_DEADLOCK FALSE
INVARIANTS Covered
PROPERTIES BackedUp
