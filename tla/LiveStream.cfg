SPECIFICATION FairSpec
CONSTANTS
 j1 = j1
 Jobs = {j1}
 QueueSize = 1
 MaxTicks = 3
 MaxEvents = 2
INVARIANT StreamHeld
 
PROPERTY BannerEnds
PROPERTY BarEnds
CHECK_DEADLOCK FALSE
