\* Two runs find cases of two people at the same time and alert on two channels.
CONSTANTS
    Actor = {a, b}
    Name = {n}
    Day <- OneDay
    Run = {r1, r2}
    Thread = {}
    SuppressionId = {}
    Channels <- MCChannels
    AlertBudget = 2
    TopDetections = 5
    MaxFeedback = 1
    None = None
SPECIFICATION Spec
INVARIANTS
    TypeOK
    OnlyTheInserterAlerts
    EveryWorkingChannelTold
PROPERTIES
    RunsEnd
