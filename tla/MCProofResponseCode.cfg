SPECIFICATION Spec
CONSTANTS
    Handler = {h1, h2, h3}
    Poller = {p1, p2}
    PendingSetting = 0
    ResultSetting = 2
    DefaultPending = 3
    DefaultResult = 1
    MaxTtl = 4
    MaxTime = 6
    MaxFailures = 1
INVARIANTS TypeOK SingleUse AnswersAgree LifetimeBounded PendingIsFindable ExpiredIsTrue
SYMMETRY Symmetry
CHECK_DEADLOCK FALSE
