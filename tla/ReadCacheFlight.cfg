SPECIFICATION Spec
CONSTANTS
 r1 = r1
 r2 = r2
 q1 = q1
 j1 = j1
 overview = overview
 transactions = transactions
 Readers = {r1, r2}
 Conditional = {}
 SharedSession = {r2}
 Prompt = {r1, r2}
 Requests = {}
 RequestWrites <- LedgerWrites
 Jobs = {j1}
 JobWrites <- PriceWrites
 Events = {"tick"}
 Keys = {overview, transactions}
 ReadsOf <- BothReads
 MaxEntries = 1
 TTL = 1
 MaxVersion = 1
 MaxTime = 2
 MaxBoot = 0
 MaxRaises = 1
INVARIANT SingleFlight
INVARIANT WaitersHaveLeader
INVARIANT CacheBounded
PROPERTY NoExpiredAnswer
