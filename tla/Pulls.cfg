SPECIFICATION Spec
CONSTANTS
 round = round
 warmup = warmup
 stock = stock
 fund = fund
 PullIds = {round, warmup}
 Symbols = {stock, fund}
 NavSymbols = {fund}
 plan <- RoundAndWarmUp
 MaxTime = 2
 Minute = 2
 Hour = 2
 TdCap = 2
 TdDayCap = 3
 TiCap = 2
 TiDayCap = 3
INVARIANT LedgerTruthful
INVARIANT GrantsPaced
INVARIANT Airtight
INVARIANT WaitFillsMinute
CHECK_DEADLOCK FALSE
