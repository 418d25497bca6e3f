SPECIFICATION Spec
CONSTANTS
    Sessions = {s1}
    Offered <- MCNewSymbol
    Scheduled = sched
    Direct = {job}
    Retention <- MCRetention
    Debounce = 1
    Nightly = 2
    Never = Never
    MaxTime = 2
    MaxFails = 0
    MaxBoot = 0
CHECK_DEADLOCK FALSE
INVARIANT WritesRemembered
