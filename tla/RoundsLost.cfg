SPECIFICATION Spec
CONSTANTS
 r1 = r1
 r2 = r2
 RoundIds = {r1, r2}
 Symbols = {fund}
 fund = fund
 Interval = 1
 MaxDelay = 1
 WakeWindow = 1
 Cooldown = 1
 QueueMax = 2
 MaxAttempts = 1
INVARIANT LoopArmed
