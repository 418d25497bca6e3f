SPECIFICATION FairSpec
CONSTANTS
 r1 = r1
 r2 = r2
 q1 = q1
 j1 = j1
 overview = overview
 transactions = transactions
 Readers = {r1, r2}
 Conditional = {r1}
 SharedSession = {}
 Prompt = {r1}
 Requests = {q1}
 RequestWrites <- LedgerWrites
 Jobs = {j1}
 JobWrites <- PriceWrites
 Events = {"tick"}
 Keys = {overview}
 ReadsOf <- OverviewReads
 MaxEntries = 1
 TTL = 1
 MaxVersion = 1
 MaxTime = 0
 MaxBoot = 1
 MaxRaises = 0
INVARIANT CacheNotOlderThanBump
INVARIANT PublishedDataCurrent
PROPERTY KeepsPromise
PROPERTY RequestEnds
