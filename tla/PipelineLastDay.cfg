\* A person leaves on day 4 and takes files that day.
CONSTANTS
    Actor = {1, 2, 3}
    TicksPerDay = 2
    NightTicks <- MCNight
    PeerGroup <- MCPeerGroup
    WindowDays = 3
    MinDaysHistory = 2
    MinPeerGroupSize = 2
    None = None
    Rules <- MCRules
    AnomalyScore <- MCAnomalyScore
    HasDrivers <- MCHasDrivers
    Privileged <- MCPrivileged
    JoinedOn <- MCJoined
    DepartureNoticeOn <- MCNotice
    LastDayOn <- MCLastDay
    ZThreshold = 2
    MinEventsForZ = 3
    AbsoluteFileAccessFloor = 12
    AbsoluteBytesFloor = 12
    MinBytesForZ = 3
    TagFloor = 1
    NewJoinerDays = 2
    MinTrainingDays = 2
    ScoreThreshold = 55
    Decay <- MCDecay
    MultiplierDeparting = 200
    MultiplierPrivileged = 150
    MultiplierRestrictedData = 160
    MultiplierOffHours = 130
    MaxScore = 1000
    CaseThreshold = 400
    AlertBudget = 1
    TopDetections = 2
    MaxFeedback = 1
    NameOrder <- MCNameOrder
    MinVerdicts = 1
    Histories <- MCHistories
    NewEvents <- MCNewEvents
    ScoreDays = 2
    EvalWindowDays = 1
    TrainDays = 2
    Insiders <- MCInsiders
    Run = {r1}
    Thread = {}
    SuppressionId = {}
SPECIFICATION Spec
INVARIANTS
    DepartingToTheLastDay
CHECK_DEADLOCK FALSE
