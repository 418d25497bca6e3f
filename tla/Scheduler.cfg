SPECIFICATION FairSpec
CONSTANTS
 reset = reset
 rebuild = rebuild
 JobIds = {reset}
 HeavyJobs = {reset}
 NoJob = NoJob
 Never = Never
 MaxRuns = 1
 MaxTime = 2
 StockOpen = {0}
 Settled <- SettledAt
 ForexOpen = {0}
 ForexClose <- FridayClose
 TickEvery = 1
 FxEvery = 1
 CheckEvery = 1
 BackupEvery = 2
 Requested = {"fx", NoJob}
 Pausable = {"eod"}
 MaxRequests = 1
 MaxPauses = 1
 MaxBoot = 1
 Outages = {1}
INVARIANT PausesKept
PROPERTY RequestRuns
PROPERTY EodArrives
INVARIANT MutexOwned
PROPERTY MutexFreed
