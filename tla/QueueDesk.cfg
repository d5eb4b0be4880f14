\* Two runs refresh the cases of one person while an analyst closes, reopens, gives
\* verdicts and suppresses, and the retention deletes.
CONSTANTS
    Actor = {a}
    Name = {n, m, k}
    Day <- TwoDays
    Run = {r1, r2}
    Thread = {t1}
    SuppressionId = {s1, s2}
    Channels <- MCNone
    AlertBudget = 1
    TopDetections = 2
    MaxFeedback = 3
    None = None
SPECIFICATION Spec
SYMMETRY Symmetric
INVARIANTS
    RetentionHonoured
    SuppressionJustified
PROPERTIES
    DecisionOutlivesRuns
