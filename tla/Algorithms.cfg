SPECIFICATION Spec
CONSTANTS
    Interval = 30
    ClosedTtl = 10080
    OneHour = 60
    Warmup = 30
    BarStaleness = 30
    FullWeek = 5
    NoAge = 999
    Batch = 3
    Reserve = 2
    LoginReserve = 1
    ProbesADay = 2
    ProbeCooldown = 2
    PeerGrace = 1
    FirstProbe = 3
    ProbeGrace = 1
INVARIANT CalendarRight
INVARIANT VerdictsAgree
INVARIANT HeadlineHonest
INVARIANT PlansRight
INVARIANT MoveHonest
INVARIANT CurvesHealed
INVARIANT SprungTrue
INVARIANT OrdersSound
CHECK_DEADLOCK FALSE
