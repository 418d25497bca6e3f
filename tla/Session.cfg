SPECIFICATION Spec
CONSTANTS
    b1 = b1
    b2 = b2
    Builders <- MCBuilders
    Close = 3
    Tol = 1
    Hour = 2
    ProbeMin = 1
    Agreements = 2
    Strikes = 2
    Cooldown = 3
    Shut = 1
    MaxTips = 1
    Patience = 1
    Writers = 2
    Horizon = 3
SYMMETRY Symmetric
CHECK_DEADLOCK FALSE
INVARIANT SettledEarned
INVARIANT StrikesBounded
